---- MODULE Spec2Model ----
(***************************************************************************)
(* Verification model of snowcap-CDCL:                                     *)
(*   - TreePermutator        (snowcap/src/permutators/tree.rs)             *)
(*   - StrategyTRTA          (snowcap/src/dep_groups/strategy_trta.rs)     *)
(* Vec positions are 0-based in the source; TLA+ sequences are 1-based, so *)
(* source position i is sequence position i+1.  The indices stored inside  *)
(* the vectors (into data, into the group pool) keep their 0-based values. *)
(***************************************************************************)
EXTENDS Integers, Sequences, FiniteSets, TLC

VARIABLES
    \* ---- TreePermutator fields (tree.rs:36-45)
    data,        \* Vec<T>: the input after O::sort
    state,       \* Vec<usize>: the current permutation, as indices into data
    remaining,   \* Vec<Vec<usize>>: per position, the choices left (back = next)
    len,         \* usize
    started,     \* bool
    \* ---- what the caller of the permutator has seen
    input,       \* the vector handed to new
    ordering,    \* the ordering O the permutator was built with
    emitted,     \* the vectors returned by next() as Some(..), in order
    emittedIdx,  \* the index tuple (state) behind each emitted vector
    exhausted,   \* next() has returned None
    pruned,      \* <<k, p>> for every fail_pos(p) made after the k-th emission
    nfail,       \* number of fail_pos calls made
    treePanic,   \* an unwrap inside next() failed
    \* ---- the arguments of StrategyTRTA::new and the collaborators' behaviour
    world,       \* modifiers, time budget, and how simulator and policies react
    \* ---- StrategyTRTA fields (strategy_trta.rs:178-189)
    strategy,    \* [net, groups, hard_policy, stop_time]
    \* ---- locals of StrategyTRTA::work (strategy_trta.rs:242-606)
    stack,             \* Vec<StackFrame>, top = last
    current_sequence,  \* Vec<usize>
    net,               \* the live simulator: the modifiers on its undo stack
    hard_policy,       \* the live policy evaluator: the forwarding states stepped
    \* ---- position of the program and the call in progress
    pc,          \* "new", "work", "loop", "probe", "ok", "stuck", "done"
    group_pos,   \* loop variable of get_next_option
    call,        \* the state in which the current get_next_option call began
    ret,         \* what get_next_option returned: [ok, val]
    lastProbe,   \* what the last probe of a candidate did
    polled,      \* what the clock and the stopper held in this iteration of work
    oracle,      \* the oracle's answer read in this iteration: [status, indices]
    result,      \* what new / work returned, "none" while running
    returned,    \* the ordering returned with Ok
    \* ---- the formula side of StrategyTRTA::work (strategy_trta.rs:251-294, 371-501)
    modifiers,             \* the ConfigModifiers handed to new, by kind
    session_pairs,         \* Vec<(RouterId, RouterId)>
    always_formula_parts,  \* the exclusivity and eventuality constraints
    aalta_input,           \* the formula sent to the oracle, as its conjuncts
    output_str,            \* what the oracle wrote: its lines, split at ","
    indices,               \* Vec<usize> parsed from output_str
    num_stuck,             \* how many formulas were built in this run
    \* ---- StrategyTRTA::find_dependency (strategy_trta.rs:720-752)
    errors       \* the errors captured from the bad group

permVars == <<data, state, remaining, len, started, input, ordering, emitted, emittedIdx,
              exhausted, pruned, nfail, treePanic>>

drvVars == <<world, strategy, stack, current_sequence, net, hard_policy, pc,
             group_pos, call, ret, lastProbe, polled, oracle, result, returned>>

fmVars == <<modifiers, session_pairs, always_formula_parts, aalta_input, output_str,
            indices, num_stuck, errors>>

vars == <<permVars, drvVars, fmVars>>

-----------------------------------------------------------------------------
\* Bounds of the model.
MaxLen == 4        \* longest permutator input iterated without pruning
MaxPruneLen == 3   \* longest permutator input iterated with fail_pos calls
MaxFails == 2      \* most fail_pos calls in one run of the permutator
NumElems == 2      \* number of distinct element values an input draws from
MaxMods == 3       \* most modifiers handed to StrategyTRTA::new
MaxClauses == 1    \* most violation patterns of the hard policies
MaxRejects == 1    \* most rejection rules of the simulator
NumRouters == 1    \* routers a black hole can be reported at
MaxTrace == 2      \* longest index sequence read from the oracle's answer
MaxFormulaMods == 2  \* most modifiers of a pool whose formulas are built
MaxCheck == 2      \* most routers in the list a stuck point carries
MaxStuck == 2      \* most stuck points of a run whose formulas are built
MaxBodyLines == 2  \* most lines after the status line of an oracle output
MaxParts == 2      \* most comma-separated parts of one such line
\* The number of propositions written into the frame constraints (the literal
\* 6 of `for i in 0..6`).
NumPropositions == 6

-----------------------------------------------------------------------------
\* Generic helpers on sequences.

Last(s) == s[Len(s)]

Front(s) == SubSeq(s, 1, Len(s) - 1)

Range(s) == {s[i] : i \in 1..Len(s)}

SeqsUpTo(S, n) == UNION {[1..k -> S] : k \in 0..n}

RECURSIVE Factorial(_)
Factorial(n) == IF n <= 0 THEN 1 ELSE n * Factorial(n - 1)

\* Position (1-based) of the first occurrence of x in s, 0 when absent:
\* Iterator::position.
Position(s, x) ==
    IF \E i \in 1..Len(s) : s[i] = x
    THEN CHOOSE i \in 1..Len(s) : s[i] = x /\ \A j \in 1..(i - 1) : s[j] # x
    ELSE 0

\* Vec::remove(i) with i 1-based.
RemoveAt(s, i) == SubSeq(s, 1, i - 1) \o SubSeq(s, i + 1, Len(s))

\* Stable insertion of x into the sequence s, which is sorted by the key
\* function: x goes after every element whose key is not greater than x's.
RECURSIVE InsertSorted(_, _, _)
InsertSorted(s, x, key) ==
    IF s = <<>> THEN <<x>>
    ELSE IF key[x] < key[Last(s)] THEN Append(InsertSorted(Front(s), x, key), Last(s))
         ELSE Append(s, x)

\* A stable sort of s by ascending key (slice::sort_by, slice::sort_by_key).
RECURSIVE StableSort(_, _)
StableSort(s, key) ==
    IF s = <<>> THEN <<>>
    ELSE InsertSorted(StableSort(Front(s), key), Last(s), key)

-----------------------------------------------------------------------------
\* TreePermutator.

Elems == 1..NumElems

Orderings == {"NoOrdering", "ByValue"}

\* O::sort: NoOrdering compares every pair as equal, so the stable sort keeps
\* the input order; the other ordering sorts by value.
OSort(v, o) ==
    IF o = "NoOrdering" THEN StableSort(v, [x \in Range(v) |-> 0])
    ELSE StableSort(v, [x \in Range(v) |-> x])

\* Mutant: the range starts one too late, (i + 2)..input_len.
InitialRemainingLate(i, n) == [k \in 1..(n - 2 - i) |-> n - k]

\* ((i + 1)..input_len).rev().collect() for the 0-based position i.
InitialRemaining(i, n) == [k \in 1..(n - 1 - i) |-> n - k]

\* Mutant: the sort is ascending, the Reverse key forgotten.
SortAscending(s) == StableSort(s, [x \in Range(s) |-> x])

\* working_rem.sort_by_key(|&b| Reverse(b))
SortReverse(s) == StableSort(s, [x \in Range(s) |-> 0 - x])

\* self.state.iter().map(|idx| self.data.get(*idx).unwrap()).cloned().collect()
Output(st, d) == [i \in 1..Len(st) |-> d[st[i] + 1]]

\* The position found by remaining.iter().enumerate().rev().find(!is_empty),
\* 1-based; 0 for None.
ChangePos(rem) ==
    LET nonEmpty == {i \in 1..Len(rem) : rem[i] # <<>>}
    IN IF nonEmpty = {} THEN 0 ELSE CHOOSE i \in nonEmpty : \A j \in nonEmpty : j <= i

\* The loop of next() over pos in (change_pos + 1)..len: each position pops the
\* back of working_rem into state and keeps a clone of what is left.
RECURSIVE Distribute(_, _, _, _)
Distribute(st, rem, working_rem, pos) ==
    IF pos > Len(st) THEN [state |-> st, remaining |-> rem, ok |-> TRUE]
    ELSE IF working_rem = <<>> THEN [state |-> st, remaining |-> rem, ok |-> FALSE]
    ELSE Distribute([st EXCEPT ![pos] = Last(working_rem)],
                    [rem EXCEPT ![pos] = Front(working_rem)],
                    Front(working_rem), pos + 1)

\* Mutant: the new element is read from the back of remaining[c] but not
\* popped.
AdvanceKeepChoice(st, rem, c) ==
    LET working0 == SubSeq(st, c, Len(st))
        new_element == Last(rem[c])
        st1 == [st EXCEPT ![c] = new_element]
        at == Position(working0, new_element)
    IN IF at = 0 THEN [state |-> st1, remaining |-> rem, ok |-> FALSE]
       ELSE Distribute(st1, rem, SortReverse(RemoveAt(working0, at)), c + 1)

\* The body of next() after the first call, at change position c (1-based).
Advance(st, rem, c) ==
    LET working0 == SubSeq(st, c, Len(st))
        new_element == Last(rem[c])
        rem1 == [rem EXCEPT ![c] = Front(rem[c])]
        st1 == [st EXCEPT ![c] = new_element]
        at == Position(working0, new_element)
    IN IF at = 0 THEN [state |-> st1, remaining |-> rem1, ok |-> FALSE]
       ELSE Distribute(st1, rem1, SortReverse(RemoveAt(working0, at)), c + 1)

\* The strategy is not part of a run of the permutator alone.
NoProbe == [valid |-> FALSE]
NoCall == [valid |-> FALSE]
NoRet == [valid |-> FALSE]
NoPoll == [valid |-> FALSE]
NoOracle == [valid |-> FALSE]
NoErrors == [some |-> FALSE]

\* No formula is being built and find_dependency is not running.
FormulaIdle ==
    /\ modifiers = <<>>
    /\ session_pairs = <<>>
    /\ always_formula_parts = <<>>
    /\ aalta_input = <<>>
    /\ output_str = <<>>
    /\ indices = <<>>
    /\ num_stuck = 0
    /\ errors = NoErrors

DriverIdle ==
    /\ world = [n |-> 0]
    /\ strategy = [built |-> FALSE]
    /\ stack = <<>>
    /\ current_sequence = <<>>
    /\ net = <<>>
    /\ hard_policy = <<>>
    /\ pc = "idle"
    /\ group_pos = 0
    /\ call = NoCall
    /\ ret = NoRet
    /\ lastProbe = NoProbe
    /\ polled = NoPoll
    /\ oracle = NoOracle
    /\ result = "none"
    /\ returned = <<>>

\* TreePermutator::new on one of the inputs, sorted by one of the orderings.
New(inputs, orderings) ==
    /\ \E v \in inputs : \E o \in orderings : \E n \in {Len(v)} :
          /\ input = v
          /\ ordering = o
          /\ data = OSort(v, o)
          /\ len = n
          /\ state = [i \in 1..n |-> i - 1]
          /\ remaining = [i \in 1..n |-> InitialRemaining(i - 1, n)]
    /\ started = FALSE
    /\ emitted = <<>>
    /\ emittedIdx = <<>>
    /\ exhausted = FALSE
    /\ pruned = {}
    /\ nfail = 0
    /\ treePanic = FALSE
    /\ DriverIdle
    /\ FormulaIdle

\* next(), first call.
NextFirst ==
    /\ ~treePanic
    /\ ~started
    /\ started' = TRUE
    /\ emitted' = Append(emitted, Output(state, data))
    /\ emittedIdx' = Append(emittedIdx, state)
    /\ UNCHANGED <<data, state, remaining, len, input, ordering, exhausted, pruned, nfail, treePanic>>
    /\ UNCHANGED drvVars
    /\ UNCHANGED fmVars

\* next(), nothing remaining anywhere: None.
NextNone ==
    /\ ~treePanic
    /\ started
    /\ ChangePos(remaining) = 0
    /\ exhausted' = TRUE
    /\ UNCHANGED <<data, state, remaining, len, started, input, ordering, emitted, emittedIdx,
                   pruned, nfail, treePanic>>
    /\ UNCHANGED drvVars
    /\ UNCHANGED fmVars

\* next(), advancing to the following permutation.
NextSome ==
    /\ ~treePanic
    /\ started
    /\ ChangePos(remaining) # 0
    /\ LET r == Advance(state, remaining, ChangePos(remaining))
       IN /\ state' = r.state
          /\ remaining' = r.remaining
          /\ treePanic' = ~r.ok
          /\ emitted' = IF r.ok THEN Append(emitted, Output(r.state, data)) ELSE emitted
          /\ emittedIdx' = IF r.ok THEN Append(emittedIdx, r.state) ELSE emittedIdx
    /\ UNCHANGED <<data, len, started, input, ordering, exhausted, pruned, nfail>>
    /\ UNCHANGED drvVars
    /\ UNCHANGED fmVars

\* Mutant: the loop starts one position too deep, at pos + 2.
FailPosTooDeep(rem, pos, n) ==
    [i \in 1..Len(rem) |-> IF i - 1 >= pos + 2 /\ i - 1 < n THEN <<>> ELSE rem[i]]

\* Mutant: the loop starts at pos itself and clears the choices left there.
FailPosTooShallow(rem, pos, n) ==
    [i \in 1..Len(rem) |-> IF i - 1 >= pos /\ i - 1 < n THEN <<>> ELSE rem[i]]

\* fail_pos(pos): clear remaining[i] for i in (pos + 1)..len.
FailPosResult(rem, pos, n) ==
    [i \in 1..Len(rem) |-> IF i - 1 >= pos + 1 /\ i - 1 < n THEN <<>> ELSE rem[i]]

FailPos(pos) ==
    /\ ~treePanic
    /\ nfail < MaxFails
    /\ remaining' = FailPosResult(remaining, pos, len)
    /\ nfail' = nfail + 1
    /\ pruned' = pruned \cup {<<Len(emittedIdx), pos>>}
    /\ UNCHANGED <<data, state, len, started, input, ordering, emitted, emittedIdx, exhausted,
                   treePanic>>
    /\ UNCHANGED drvVars
    /\ UNCHANGED fmVars

\* The permutator iterated to exhaustion, no fail_pos call.
InitPerm == New(SeqsUpTo(Elems, MaxLen), Orderings)

NextPerm ==
    \/ NextFirst
    \/ NextSome
    \/ NextNone

SpecPerm == InitPerm /\ [][NextPerm]_vars

\* The permutator under any interleaving of next() and fail_pos(pos).
\* The inputs are those of the repository's tests: pairwise distinct elements.
InitPrune == New({[i \in 1..n |-> i] : n \in 0..MaxPruneLen}, {"NoOrdering"})

NextPrune ==
    \/ NextFirst
    \/ NextSome
    \/ NextNone
    \/ \E pos \in 0..(MaxPruneLen - 1) : FailPos(pos)

SpecPrune == InitPrune /\ [][NextPrune]_vars

-----------------------------------------------------------------------------
\* Reference notions for the permutator's properties.

Min2(a, b) == IF a <= b THEN a ELSE b
Max2(a, b) == IF a >= b THEN a ELSE b
MinOf(S) == CHOOSE x \in S : \A y \in S : x <= y

\* Every arrangement of the positions 0..n-1.
Perms(n) == {f \in [1..n -> 0..(n - 1)] : \A i, j \in 1..n : i # j => f[i] # f[j]}

\* Lexicographic order on index tuples of equal length.
LexLess(a, b) ==
    \E i \in 1..Len(a) : a[i] < b[i] /\ \A j \in 1..(i - 1) : a[j] = b[j]

LexLeq(a, b) == a = b \/ LexLess(a, b)

\* The arrangements of the set S of indices listed in lexicographic order.
RECURSIVE LexPerms(_), LexPermsFrom(_, _)
LexPerms(S) == IF S = {} THEN << <<>> >> ELSE LexPermsFrom(S, S)
LexPermsFrom(S, todo) ==
    IF todo = {} THEN <<>>
    ELSE LET x == MinOf(todo)
             tails == LexPerms(S \ {x})
         IN [k \in 1..Len(tails) |-> <<x>> \o tails[k]] \o LexPermsFrom(S, todo \ {x})

LexTable == [n \in 0..Max2(MaxLen, MaxPruneLen) |-> LexPerms(0..(n - 1))]

Prefix(s, m) == SubSeq(s, 1, Min2(m, Len(s)))

-----------------------------------------------------------------------------
\* C5: with no fail_pos call, iterating the TreePermutator to exhaustion emits
\* exactly n! permutations, pairwise distinct as arrangements of the input's
\* positions, whose set is the set of all permutations of the input (one empty
\* permutation for n = 0); next() returns None exactly after the n!-th
\* emission, and no step of next() fails.
C5_Completeness ==
    /\ ~treePanic
    /\ Len(emitted) <= Factorial(len)
    /\ Len(emitted) = Factorial(len) <=> (started /\ ChangePos(remaining) = 0)
    /\ exhausted =>
          /\ Len(emitted) = Factorial(len)
          /\ Len(emittedIdx) = Factorial(len)
          /\ Cardinality(Range(emittedIdx)) = Factorial(len)
          /\ Range(emittedIdx) = Perms(len)
          /\ Range(emitted) = {Output(q, input) : q \in Perms(len)}
          /\ \A k \in 1..Len(emitted) : emitted[k] = Output(emittedIdx[k], data)

C5_Witness ==
    /\ exhausted
    /\ len = 3
    /\ Len(emitted) = 6
    /\ ordering = "ByValue"
    /\ input # data

\* C6: with no fail_pos call, the first next() returns the input in its sorted
\* order, and the emitted sequence is the lexicographic order over the tuples
\* of indices into the sorted input.
C6_LexOrder ==
    /\ emitted # <<>> => emitted[1] = OSort(input, ordering)
    /\ emittedIdx = SubSeq(LexTable[len], 1, Len(emittedIdx))
    /\ emitted = [k \in 1..Len(emittedIdx) |->
                     Output(emittedIdx[k], OSort(input, ordering))]
    /\ exhausted => emittedIdx = LexTable[len]

C6_Witness ==
    /\ Len(emitted) >= 4
    /\ ordering = "ByValue"
    /\ input # OSort(input, ordering)

\* C7: after fail_pos(p) is called following the k-th emission pi, no later
\* emission has the same first p+1 elements as pi.
C7_PruningSound ==
    \A r \in pruned :
        r[1] >= 1 =>
            \A j \in (r[1] + 1)..Len(emitted) :
                Prefix(emitted[j], r[2] + 1) # Prefix(emitted[r[1]], r[2] + 1)

C7_Witness ==
    \E r \in pruned :
        /\ r[1] >= 1
        /\ r[2] + 1 < len - 1
        /\ Len(emitted) > r[1]

\* The arrangement q lies under a failed prefix: some fail_pos(p), made after
\* the k-th emission (k = 0: before the first, when state is the identity),
\* pruned the prefix of length p+1 that q shares, and q comes after the pivot.
Pivot(k) == IF k = 0 THEN [i \in 1..len |-> i - 1] ELSE emittedIdx[k]
UnderFailedPrefix(q) ==
    \E r \in pruned :
        /\ LexLess(Pivot(r[1]), q)
        /\ Prefix(q, r[2] + 1) = Prefix(Pivot(r[1]), r[2] + 1)

\* C8: pruning removes nothing else: the emitted sequence is, in lexicographic
\* order, every arrangement that is not under a failed prefix, up to the last
\* emission (all of them once next() has returned None); so the emission after
\* fail_pos(p) at pi is the least arrangement above pi that differs from pi
\* within its first p+1 positions, and fail_pos(n-1) prunes nothing.
C8_Kept(q) ==
    /\ ~UnderFailedPrefix(q)
    /\ emittedIdx # <<>>
    /\ exhausted \/ LexLeq(q, Last(emittedIdx))
C8_PruningExact ==
    /\ emittedIdx = SelectSeq(LexTable[len], C8_Kept)
    /\ emitted = [k \in 1..Len(emittedIdx) |-> Output(emittedIdx[k], data)]

\* The scenario [A, B, C] with fail_pos(0) after the first emission.
C8_Witness ==
    /\ len = 3
    /\ pruned = {<<1, 0>>}
    /\ exhausted
    /\ emitted = << <<1, 2, 3>>, <<2, 1, 3>>, <<2, 3, 1>>, <<3, 1, 2>>, <<3, 2, 1>> >>

-----------------------------------------------------------------------------
\* The collaborators of the strategy: the network simulator and the hard
\* policy evaluator.  A world fixes how they react, as a function of the set
\* of modifiers applied to the initial configuration.

Mods(n) == 0..(n - 1)
Routers == 1..NumRouters

\* A pattern matches the configurations that hold all of pos and none of neg.
Patterns(n) == {pt \in [pos : SUBSET Mods(n), neg : SUBSET Mods(n)] : pt.pos \cap pt.neg = {}}
Matches(pt, S) == pt.pos \subseteq S /\ pt.neg \cap S = {}

\* A violation pattern of the hard policies: a forwarding black hole, reported
\* with the routers that drop traffic, or a violation of another kind.
Clauses(n) ==
    {[pos |-> pt.pos, neg |-> pt.neg, kind |-> "other", nodes |-> <<>>] : pt \in Patterns(n)}
    \cup {[pos |-> pt.pos, neg |-> pt.neg, kind |-> "bh", nodes |-> <<r>>] :
            pt \in Patterns(n), r \in Routers}

\* A rejection rule of the simulator: modifier m is rejected always, or while
\* modifier x is applied, or while modifier x is not applied.
OtherPairs(n) == {q \in Mods(n) \X Mods(n) : q[1] # q[2]}
Rejections(n) ==
    {[m |-> m, pos |-> {}, neg |-> {}] : m \in Mods(n)}
    \cup {[m |-> q[1], pos |-> {q[2]}, neg |-> {}] : q \in OtherPairs(n)}
    \cup {[m |-> q[1], pos |-> {}, neg |-> {q[2]}] : q \in OtherPairs(n)}

RECURSIVE SubsetsUpTo(_, _)
SubsetsUpTo(S, k) ==
    IF k = 0 THEN {{}}
    ELSE LET smaller == SubsetsUpTo(S, k - 1)
         IN smaller \cup {T \cup {x} : T \in smaller, x \in S}

Budgets == {"None", "Some"}

\* Three modifications of which every one applied alone, and every two applied
\* together, violate a policy, while all three together satisfy them.
AtomicTriple ==
    [n |-> 3,
     clauses |-> {[pos |-> {0}, neg |-> {1}, kind |-> "other", nodes |-> <<>>],
                  [pos |-> {1}, neg |-> {2}, kind |-> "other", nodes |-> <<>>],
                  [pos |-> {2}, neg |-> {0}, kind |-> "other", nodes |-> <<>>]},
     rejects |-> {},
     time_budget |-> "None"]

Worlds ==
    UNION {[n : {n},
            clauses : SubsetsUpTo(Clauses(n), MaxClauses),
            rejects : SubsetsUpTo(Rejections(n), MaxRejects),
            time_budget : Budgets] : n \in 0..MaxMods}
    \cup {AtomicTriple}

\* What the policies say of the configuration with the set S applied.
Verdict(w, S) ==
    IF \E c \in w.clauses : c.kind = "bh" /\ Matches(c, S) THEN "bh"
    ELSE IF \E c \in w.clauses : Matches(c, S) THEN "other"
    ELSE "ok"

BlackHoleNodes(w, S) ==
    (CHOOSE c \in w.clauses : c.kind = "bh" /\ Matches(c, S)).nodes

\* Network::apply_modifier: ok, or sim_error with the network left as it was.
ApplyModifier(w, nt, m) ==
    IF \E r \in w.rejects : r.m = m /\ Matches(r, Range(nt))
    THEN [ok |-> FALSE, net |-> nt]
    ELSE [ok |-> TRUE, net |-> Append(nt, m)]

\* Network::undo_action: reverts the last applied modifier; sim_error when
\* nothing is left to undo.
UndoAction(nt) ==
    IF nt = <<>> THEN [ok |-> FALSE, net |-> nt]
    ELSE [ok |-> TRUE, net |-> Front(nt)]

\* Network::get_forwarding_state
ForwardingState(nt) == Range(nt)

\* HardPolicy::step records the forwarding state; it returns the black-hole
\* error when that state black-holes traffic.
PolicyStep(hp, fw) == Append(hp, fw)
StepResult(w, fw) ==
    IF Verdict(w, fw) = "bh" THEN [ok |-> FALSE, nodes |-> BlackHoleNodes(w, fw)]
    ELSE [ok |-> TRUE, nodes |-> <<>>]

\* HardPolicy::check: do the policies hold in the state last stepped.
PolicyCheck(w, hp) == hp # <<>> /\ Verdict(w, Last(hp)) = "ok"

\* HardPolicy::undo
PolicyUndo(hp) == IF hp = <<>> THEN hp ELSE Front(hp)

\* utils::finalize_ordering: the groups' modifiers, in the order of the sequence.
RECURSIVE FinalizeOrdering(_, _)
FinalizeOrdering(groups, sequence) ==
    IF sequence = <<>> THEN <<>>
    ELSE FinalizeOrdering(groups, Front(sequence)) \o groups[Last(sequence) + 1]

-----------------------------------------------------------------------------
\* StrategyTRTA.

None == [some |-> FALSE]
Some(v) == [some |-> TRUE, val |-> v]

Frame(rem_groups, idx, num_undo) ==
    [rem_groups |-> rem_groups, idx |-> idx, num_undo |-> num_undo]

\* Every order rem_groups.shuffle(rng) can leave the options 0..n-1 in.
Shuffles(n) == {f \in [1..n -> Mods(n)] : \A i, j \in 1..n : i # j => f[i] # f[j]}

\* StackFrame::new over the options 0..n-1.
NewFrames(n, num_undo) == {Frame(f, 0, num_undo) : f \in Shuffles(n)}

\* (0..k).for_each(|_| hard_policy.undo())
RECURSIVE UndoPolicy(_, _)
UndoPolicy(hp, k) == IF k = 0 THEN hp ELSE UndoPolicy(PolicyUndo(hp), k - 1)

\* (0..k).for_each(|_| net.undo_action().expect(..)): ok is FALSE when an undo
\* fails, which panics.
RECURSIVE UndoNet(_, _)
UndoNet(nt, k) ==
    IF k = 0 THEN [ok |-> TRUE, net |-> nt]
    ELSE LET u == UndoAction(nt)
         IN IF u.ok THEN UndoNet(u.net, k - 1) ELSE [ok |-> FALSE, net |-> nt]

\* The 'apply_group loop of get_next_option over the modifiers from position k
\* of the group; acc carries mod_ok, the counters and the live objects.
RECURSIVE ApplyGroup(_, _, _, _)
ApplyGroup(w, acc, group, k) ==
    IF k > Len(group) THEN acc
    ELSE LET a == ApplyModifier(w, acc.net, group[k])
             counted == [acc EXCEPT !.num_undo = acc.num_undo + 1]
         IN IF a.ok
            THEN LET fw == ForwardingState(a.net)
                     hp == PolicyStep(acc.hard_policy, fw)
                     st == StepResult(w, fw)
                     stepped == [counted EXCEPT
                                    !.net = a.net,
                                    !.hard_policy = hp,
                                    !.applied = acc.applied + 1,
                                    !.num_undo_policy = acc.num_undo_policy + 1,
                                    !.error_node_indices =
                                        IF st.ok THEN acc.error_node_indices
                                        ELSE Some(st.nodes)]
                 IN IF ~PolicyCheck(w, hp)
                    THEN [stepped EXCEPT !.mod_ok = FALSE]
                    ELSE ApplyGroup(w, stepped, group, k + 1)
            ELSE [counted EXCEPT !.mod_ok = FALSE]

ApplyStart(nt, hp) ==
    [mod_ok |-> TRUE, num_undo |-> 0, num_undo_policy |-> 0, applied |-> 0,
     error_node_indices |-> None, net |-> nt, hard_policy |-> hp]

\* One candidate of get_next_option: apply the group; when it is not ok, undo
\* the hard policy num_undo_policy times and the network num_undo times.
ProbeGroup(w, nt, hp, group) ==
    LET a == ApplyGroup(w, ApplyStart(nt, hp), group, 1)
        u == UndoNet(a.net, a.num_undo)
    IN IF a.mod_ok
       THEN [mod_ok |-> TRUE, panic |-> FALSE, net |-> a.net, hard_policy |-> a.hard_policy,
             applied |-> a.applied, steps |-> a.num_undo_policy,
             net_undos |-> 0, policy_undos |-> 0,
             error_node_indices |-> a.error_node_indices]
       ELSE [mod_ok |-> FALSE, panic |-> ~u.ok, net |-> u.net,
             hard_policy |-> UndoPolicy(a.hard_policy, a.num_undo_policy),
             applied |-> a.applied, steps |-> a.num_undo_policy,
             net_undos |-> a.num_undo, policy_undos |-> a.num_undo_policy,
             error_node_indices |-> a.error_node_indices]

\* What the oracle's answer yields: the status line and, when it is sat, the
\* indices of the positively asserted propositions in trace order.
OracleAnswers(n) ==
    {[status |-> "unsat", trace |-> <<>>], [status |-> "failed", trace |-> <<>>]}
    \cup {[status |-> "sat", trace |-> t] : t \in SeqsUpTo(0..n, MaxTrace)}

ExtractIndices(answer) == IF answer.status = "sat" THEN answer.trace ELSE <<>>

\* A run of the strategy starts with the arguments of new; the permutator is
\* not part of it.
PermIdle ==
    /\ data = <<>>
    /\ state = <<>>
    /\ remaining = <<>>
    /\ len = 0
    /\ started = FALSE
    /\ input = <<>>
    /\ ordering = "NoOrdering"
    /\ emitted = <<>>
    /\ emittedIdx = <<>>
    /\ exhausted = FALSE
    /\ pruned = {}
    /\ nfail = 0
    /\ treePanic = FALSE

Init ==
    /\ world \in Worlds
    /\ strategy = [built |-> FALSE]
    /\ stack = <<>>
    /\ current_sequence = <<>>
    /\ net = <<>>
    /\ hard_policy = <<>>
    /\ pc = "new"
    /\ group_pos = 0
    /\ call = NoCall
    /\ ret = NoRet
    /\ lastProbe = NoProbe
    /\ polled = NoPoll
    /\ oracle = NoOracle
    /\ result = "none"
    /\ returned = <<>>
    /\ PermIdle
    /\ FormulaIdle

\* A panic unwinds the thread where it stands.
Panic ==
    /\ pc' = "done"
    /\ result' = "panic"

\* work returns r: its locals go out of scope.
Return(r) ==
    /\ pc' = "done"
    /\ result' = r
    /\ stack' = <<>>
    /\ current_sequence' = <<>>
    /\ net' = <<>>
    /\ hard_policy' = <<>>
    /\ group_pos' = 0
    /\ call' = NoCall
    /\ ret' = NoRet
    /\ lastProbe' = NoProbe

\* StrategyTRTA::new: clear the undo stack, step the policies on the initial
\* forwarding state (an error of step is returned by `?`), check them, build
\* one group per modifier and the deadline.
StrategyNew ==
    /\ pc = "new"
    /\ LET nt == <<>>
           fw == ForwardingState(nt)
           hp == PolicyStep(<<>>, fw)
           st == StepResult(world, fw)
       IN /\ net' = nt
          /\ hard_policy' = hp
          /\ IF ~st.ok
             THEN /\ pc' = "done"
                  /\ result' = "NetworkError"
                  /\ UNCHANGED strategy
             ELSE IF ~PolicyCheck(world, hp)
             THEN /\ pc' = "done"
                  /\ result' = "InvalidInitialState"
                  /\ UNCHANGED strategy
             ELSE /\ pc' = "work"
                  /\ UNCHANGED result
                  /\ strategy' = [built |-> TRUE,
                                  net |-> nt,
                                  groups |-> [i \in 1..world.n |-> <<i - 1>>],
                                  hard_policy |-> hp,
                                  stop_time |-> IF world.time_budget = "None" THEN None
                                                ELSE Some("deadline")]
    /\ UNCHANGED <<world, stack, current_sequence, group_pos, call, ret, lastProbe, polled,
                   oracle, returned>>
    /\ UNCHANGED permVars
    /\ UNCHANGED fmVars

\* StrategyTRTA::work up to the loop: the shuffled root frame, the empty
\* sequence, the clones of the network and of the hard policies.
WorkStart ==
    /\ pc = "work"
    /\ \E f \in NewFrames(Len(strategy.groups), 0) : stack' = <<f>>
    /\ current_sequence' = <<>>
    /\ net' = strategy.net
    /\ hard_policy' = strategy.hard_policy
    /\ pc' = "loop"
    /\ UNCHANGED <<world, strategy, group_pos, call, ret, lastProbe, polled, oracle,
                   result, returned>>
    /\ UNCHANGED permVars
    /\ UNCHANGED fmVars

\* One iteration's look at the clock (stop_time elapsed) and at the stopper
\* (try_is_stop, read only when the deadline has not passed), with the depth
\* of the stack it found.
Poll(timeUp, stop, depth) ==
    [valid |-> TRUE, deadline_passed |-> timeUp, stop_set |-> stop,
     stop_polls |-> IF timeUp THEN 0 ELSE 1, stack_depth |-> depth]

\* Mutant: the deadline is looked at only when the stack is empty.
LoopDecisionLateDeadline(timeUp, stop, stk) ==
    IF stop THEN "Abort"
    ELSE IF stk = <<>> THEN (IF timeUp THEN "Timeout" ELSE "ProbablyNoSafeOrdering")
    ELSE IF ~(Last(stk).idx < Len(Last(stk).rem_groups)) THEN "panic"
    ELSE "probe"

\* Mutant: the stopper is looked at before the deadline.
LoopDecisionStopFirst(timeUp, stop, stk) ==
    IF stop THEN "Abort"
    ELSE IF timeUp THEN "Timeout"
    ELSE IF stk = <<>> THEN "ProbablyNoSafeOrdering"
    ELSE IF ~(Last(stk).idx < Len(Last(stk).rem_groups)) THEN "panic"
    ELSE "probe"

\* What an iteration of work does first: the deadline, then the stopper, then
\* the top frame, then the assertion at the entry of get_next_option.
LoopDecision(timeUp, stop, stk) ==
    IF timeUp THEN "Timeout"
    ELSE IF stop THEN "Abort"
    ELSE IF stk = <<>> THEN "ProbablyNoSafeOrdering"
    ELSE IF ~(Last(stk).idx < Len(Last(stk).rem_groups)) THEN "panic"
    ELSE "probe"

\* The head of the loop of work.  timeUp and stop are what the clock and the
\* stopper hold in this iteration.
LoopHead ==
    /\ pc = "loop"
    /\ \E timeUp \in (IF strategy.stop_time.some THEN BOOLEAN ELSE {FALSE}) :
       \E stop \in BOOLEAN :
          LET decision == LoopDecision(timeUp, stop, stack)
          IN /\ polled' = Poll(timeUp, stop, Len(stack))
             /\ oracle' = NoOracle
             /\ IF decision \in {"Timeout", "Abort", "ProbablyNoSafeOrdering"}
                THEN Return(decision)
                ELSE IF decision = "panic"
                THEN /\ Panic
                     /\ UNCHANGED <<stack, current_sequence, net, hard_policy, group_pos,
                                    call, ret, lastProbe>>
                ELSE /\ pc' = "probe"
                     /\ group_pos' = Last(stack).idx
                     /\ call' = [valid |-> TRUE, net |-> net, hard_policy |-> hard_policy,
                                 idx |-> Last(stack).idx]
                     /\ UNCHANGED <<stack, current_sequence, net, hard_policy, ret,
                                    lastProbe, result>>
    /\ UNCHANGED <<world, strategy, returned>>
    /\ UNCHANGED permVars
    /\ UNCHANGED fmVars

\* One round of the loop of get_next_option, for the candidate at group_pos.
ProbeCandidate ==
    /\ pc = "probe"
    /\ LET frame == Last(stack)
           group_idx == frame.rem_groups[group_pos + 1]
       IN IF ~(group_idx < Len(strategy.groups))
          THEN /\ Panic
               /\ UNCHANGED <<net, hard_policy, group_pos, ret, lastProbe>>
          ELSE LET pr == ProbeGroup(world, net, hard_policy, strategy.groups[group_idx + 1])
               IN /\ net' = pr.net
                  /\ hard_policy' = pr.hard_policy
                  /\ lastProbe' = [valid |-> TRUE, group_pos |-> group_pos,
                                   group_idx |-> group_idx, mod_ok |-> pr.mod_ok,
                                   applied |-> pr.applied, steps |-> pr.steps,
                                   net_undos |-> pr.net_undos,
                                   policy_undos |-> pr.policy_undos,
                                   nodes |-> pr.error_node_indices,
                                   net_before |-> net, policy_before |-> hard_policy,
                                   net_after |-> pr.net, policy_after |-> pr.hard_policy]
                  /\ IF pr.mod_ok
                     THEN /\ pc' = "ok"
                          /\ ret' = [valid |-> TRUE, ok |-> TRUE, val |-> group_pos]
                          /\ UNCHANGED <<group_pos, result>>
                     ELSE IF pr.panic
                     THEN /\ Panic
                          /\ UNCHANGED <<group_pos, ret>>
                     ELSE IF pr.error_node_indices.some
                     THEN /\ pc' = "stuck"
                          /\ ret' = [valid |-> TRUE, ok |-> FALSE,
                                     val |-> pr.error_node_indices.val]
                          /\ UNCHANGED <<group_pos, result>>
                     ELSE IF group_pos + 1 < Len(frame.rem_groups)
                     THEN /\ pc' = "probe"
                          /\ group_pos' = group_pos + 1
                          /\ UNCHANGED <<ret, result>>
                     ELSE /\ pc' = "stuck"
                          /\ ret' = [valid |-> TRUE, ok |-> FALSE, val |-> <<>>]
                          /\ UNCHANGED <<group_pos, result>>
    /\ UNCHANGED <<world, strategy, stack, current_sequence, call, polled, oracle,
                   returned>>
    /\ UNCHANGED permVars
    /\ UNCHANGED fmVars

\* StackAction::Pop: pop the stack as long as the top frame has no options
\* left, undoing the network and the hard policy num_undo times per frame.
RECURSIVE StackActionPop(_, _, _, _)
StackActionPop(stk, seq, nt, hp) ==
    IF stk = <<>> THEN [ok |-> TRUE, stack |-> stk, current_sequence |-> seq,
                        net |-> nt, hard_policy |-> hp]
    ELSE IF Last(stk).idx < Len(Last(stk).rem_groups)
    THEN [ok |-> TRUE, stack |-> stk, current_sequence |-> seq,
          net |-> nt, hard_policy |-> hp]
    ELSE LET u == UndoNet(nt, Last(stk).num_undo)
         IN IF ~u.ok
            THEN [ok |-> FALSE, stack |-> stk, current_sequence |-> seq,
                  net |-> u.net, hard_policy |-> hp]
            ELSE StackActionPop(Front(stk),
                                IF seq = <<>> THEN seq ELSE Front(seq),
                                u.net,
                                UndoPolicy(hp, Last(stk).num_undo))

\* Mutant: the Reset keeps the live simulator and policy evaluator.
StackActionResetKeepLive(root) ==
    [ok |-> TRUE, stack |-> <<root>>, current_sequence |-> <<>>,
     net |-> net, hard_policy |-> hard_policy]

\* StackAction::Reset with the freshly shuffled root frame.
StackActionReset(root) ==
    [ok |-> TRUE, stack |-> <<root>>, current_sequence |-> <<>>,
     net |-> strategy.net, hard_policy |-> strategy.hard_policy]

\* StackAction::Push
StackActionPush(stk, seq, new_frame) ==
    [ok |-> TRUE, stack |-> Append(stk, new_frame), current_sequence |-> seq,
     net |-> net, hard_policy |-> hard_policy]

\* The end of an iteration of work: enact the stack action, then push a frame
\* over the indices read from the oracle when there are any.
Enact(action, stk, seq, root, extracted) ==
    LET done == CASE action.kind = "Pop" -> StackActionPop(stk, seq, net, hard_policy)
                  [] action.kind = "Push" -> StackActionPush(stk, seq, action.frame)
                  [] action.kind = "Reset" -> StackActionReset(root)
    IN IF extracted # <<>>
       THEN [done EXCEPT !.stack = Append(done.stack, Frame(extracted, 0, 0))]
       ELSE done

\* Mutant: the chosen group stays among the remaining ones.
RemainingGroupsKeepChosen(rem_groups, next_group_idx) == rem_groups

\* The rem_groups of the frame pushed after a success: those of the parent
\* that differ from the group just chosen.
RemainingGroups(rem_groups, next_group_idx) ==
    SelectSeq(rem_groups, LAMBDA x : x # next_group_idx)

\* get_next_option returned Ok(next_idx): advance the frame, extend the
\* sequence, return the finalized ordering when it covers the pool, else push
\* the frame of the remaining groups.
OnOk ==
    /\ pc = "ok"
    /\ LET frame == Last(stack)
           next_idx == ret.val
           next_group_idx == frame.rem_groups[next_idx + 1]
           stk == [stack EXCEPT ![Len(stack)].idx = next_idx + 1]
           seq == Append(current_sequence, next_group_idx)
           child == Frame(RemainingGroups(frame.rem_groups, next_group_idx), 0,
                          Len(strategy.groups[next_group_idx + 1]))
       IN IF Len(seq) = Len(strategy.groups)
          THEN /\ Return("Ok")
               /\ returned' = FinalizeOrdering(strategy.groups, seq)
               /\ polled' = NoPoll
          ELSE LET e == Enact([kind |-> "Push", frame |-> child], stk, seq, frame, <<>>)
               IN /\ pc' = "loop"
                  /\ stack' = e.stack
                  /\ current_sequence' = e.current_sequence
                  /\ net' = e.net
                  /\ hard_policy' = e.hard_policy
                  /\ group_pos' = 0
                  /\ call' = NoCall
                  /\ ret' = NoRet
                  /\ lastProbe' = NoProbe
                  /\ polled' = NoPoll
                  /\ UNCHANGED <<result, returned>>
    /\ UNCHANGED <<world, strategy, oracle>>
    /\ UNCHANGED permVars
    /\ UNCHANGED fmVars

\* get_next_option returned Err(check_idx): query the oracle, read the indices
\* from its answer, reset the search, and push the frame of the indices.
OnErr ==
    /\ pc = "stuck"
    /\ \E answer \in OracleAnswers(world.n) :
       \E root \in NewFrames(Len(strategy.groups), 0) :
          IF answer.status = "failed"
          THEN /\ Panic
               /\ UNCHANGED <<stack, current_sequence, net, hard_policy, group_pos,
                              call, ret, lastProbe, polled, oracle>>
          ELSE LET e == Enact([kind |-> "Reset"], stack, current_sequence, root,
                              ExtractIndices(answer))
               IN /\ pc' = "loop"
                  /\ stack' = e.stack
                  /\ current_sequence' = e.current_sequence
                  /\ net' = e.net
                  /\ hard_policy' = e.hard_policy
                  /\ group_pos' = 0
                  /\ call' = NoCall
                  /\ ret' = NoRet
                  /\ lastProbe' = NoProbe
                  /\ polled' = NoPoll
                  /\ oracle' = [valid |-> TRUE, status |-> answer.status,
                                 indices |-> ExtractIndices(answer)]
                  /\ UNCHANGED result
    /\ UNCHANGED <<world, strategy, returned>>
    /\ UNCHANGED permVars
    /\ UNCHANGED fmVars

Next ==
    \/ StrategyNew
    \/ WorkStart
    \/ LoopHead
    \/ ProbeCandidate
    \/ OnOk
    \/ OnErr

Spec == Init /\ [][Next]_vars

\* The loop of work runs on without yielding: every step that can be taken
\* is taken.
FairSpec == Spec /\ WF_vars(Next)

-----------------------------------------------------------------------------
\* The claims about the strategy.

\* Applying the modifiers of mods in order on the initial configuration.
RECURSIVE ReplayNet(_, _)
ReplayNet(w, mods) ==
    IF mods = <<>> THEN <<>>
    ELSE ApplyModifier(w, ReplayNet(w, Front(mods)), Last(mods)).net

\* The policy evaluator stepped on the initial configuration and after each
\* modifier of mods.
RECURSIVE ReplayPolicy(_, _)
ReplayPolicy(w, mods) ==
    IF mods = <<>> THEN PolicyStep(<<>>, ForwardingState(<<>>))
    ELSE PolicyStep(ReplayPolicy(w, Front(mods)), ForwardingState(ReplayNet(w, mods)))

\* C1: when work returns Ok(ordering), applying the returned modifications in
\* that order to the initial configuration, stepping the policies after each
\* one, never reaches a state in which the hard policies fail.
C1_ReturnedOrderingSafe ==
    result = "Ok" =>
        \A k \in 0..Len(returned) :
            Verdict(world, ForwardingState(ReplayNet(world, SubSeq(returned, 1, k)))) = "ok"

\* Modifier 0 is rejected while 2 is not applied and {0, 1} violates a policy:
\* the strategy returns 1, 2, 0.
C1_Witness ==
    /\ result = "Ok"
    /\ returned = <<1, 2, 0>>
    /\ world.rejects = {[m |-> 0, pos |-> {}, neg |-> {2}]}
    /\ world.clauses = {[pos |-> {0, 1}, neg |-> {}, kind |-> "other", nodes |-> <<>>]}

\* C2: a candidate of get_next_option that fails is undone by exactly as many
\* simulator undos as applies succeeded in the probe and as many policy undos
\* as policy steps were made, and the simulator and the policy evaluator are
\* left as they were before the probe.
C2_FailedProbeRestores ==
    (lastProbe.valid /\ ~lastProbe.mod_ok) =>
        /\ lastProbe.net_undos = lastProbe.applied
        /\ lastProbe.policy_undos = lastProbe.steps
        /\ lastProbe.net_after = lastProbe.net_before
        /\ lastProbe.policy_after = lastProbe.policy_before

\* A candidate whose first modification is rejected, probed on top of one
\* applied modifier: no apply succeeded, one undo was made.
C2_Witness ==
    /\ pc = "probe"
    /\ lastProbe.valid
    /\ ~lastProbe.mod_ok
    /\ lastProbe.applied = 0
    /\ lastProbe.net_undos = 1
    /\ lastProbe.net_before = <<1>>
    /\ lastProbe.net_after = <<>>
    /\ lastProbe.policy_after = lastProbe.policy_before

\* C3: at the start of every iteration of the loop of work, the live simulator
\* holds exactly the modifications of the groups of current_sequence, in
\* order, and the live policy evaluator the steps made along them.
C3_LiveStateFollowsSequence ==
    pc = "loop" =>
        LET mods == FinalizeOrdering(strategy.groups, current_sequence)
        IN /\ net = mods
           /\ hard_policy = ReplayPolicy(world, mods)

\* An iteration starts with the groups 1, 2 in current_sequence and only the
\* modifier 2 applied on the simulator.
C3_Witness ==
    /\ pc = "loop"
    /\ current_sequence = <<1, 2>>
    /\ net = <<2>>
    /\ hard_policy = <<{}, {1}, {2}>>

\* Does the candidate at position p of the top frame apply cleanly on the state
\* get_next_option was called with.
AppliesCleanly(p) ==
    LET group_idx == Last(stack).rem_groups[p + 1]
    IN /\ group_idx < Len(strategy.groups)
       /\ ProbeGroup(world, call.net, call.hard_policy,
                     strategy.groups[group_idx + 1]).mod_ok

\* C4: get_next_option returns Ok(p) for the least position p >= frame.idx
\* whose group applies cleanly, whenever there is one, and returns Err only
\* when every candidate at a position >= frame.idx fails.
C4_FirstCleanCandidate ==
    (pc \in {"ok", "stuck"} /\ ret.valid) =>
        LET later == call.idx..(Len(Last(stack).rem_groups) - 1)
        IN IF ret.ok
           THEN /\ ret.val \in later
                /\ AppliesCleanly(ret.val)
                /\ \A p \in later : p < ret.val => ~AppliesCleanly(p)
           ELSE \A p \in later : ~AppliesCleanly(p)

\* The first of two candidates fails with a black hole and the second, never
\* probed, applies cleanly: get_next_option returns Err.
C4_Witness ==
    /\ pc = "stuck"
    /\ ret.valid
    /\ ~ret.ok
    /\ ret.val # <<>>
    /\ world.rejects = {}
    /\ call.idx = 0
    /\ lastProbe.group_pos = 0
    /\ Len(Last(stack).rem_groups) = 2
    /\ AppliesCleanly(1)

\* C9: for every initial configuration that violates a hard policy, new fails
\* with InvalidInitialState and no other error, before any modification is
\* applied to the simulator.
C9_InvalidInitialState ==
    (pc # "new" /\ Verdict(world, ForwardingState(<<>>)) # "ok") =>
        /\ result = "InvalidInitialState"
        /\ net = <<>>

\* The initial forwarding state black-holes traffic: new returns the error of
\* step.
C9_Witness ==
    /\ pc = "done"
    /\ result = "NetworkError"
    /\ Verdict(world, ForwardingState(<<>>)) = "bh"
    /\ ~strategy.built

\* C10: with no time budget and no cancellation, every run of work eventually
\* returns, Ok once current_sequence covers the pool or ProbablyNoSafeOrdering
\* once the stack is empty.  (A run that ends in Abort was cancelled.)
C10_WorkReturns ==
    (pc = "work" /\ ~strategy.stop_time.some) ~> (result # "none")

\* The search has been reset at least once on a pool whose only modification
\* violates a policy, and is stuck again.
C10_Witness ==
    /\ pc = "stuck"
    /\ ~strategy.stop_time.some
    /\ world.n = 1
    /\ world.rejects = {}
    /\ stack = <<Frame(<<0>>, 0, 0), Frame(<<0>>, 0, 0)>>
    /\ current_sequence = <<>>

\* C11: when the deadline has passed at the start of an iteration of work,
\* whatever the stack holds, work returns Timeout in that iteration and
\* neither the prober nor the oracle is called in it.
C11_TimeoutBeforeProbe ==
    (polled.valid /\ polled.deadline_passed) =>
        /\ strategy.stop_time.some
        /\ pc = "done"
        /\ result = "Timeout"
        /\ call = NoCall
        /\ lastProbe = NoProbe
        /\ ret = NoRet

\* The deadline had passed in an iteration that found three frames on the
\* stack.
C11_Witness ==
    /\ result = "Timeout"
    /\ polled.valid
    /\ polled.deadline_passed
    /\ polled.stack_depth = 3

\* The internal sequences of the groups of seq, one after the other.
RECURSIVE ConcatGroups(_, _)
ConcatGroups(groups, seq) ==
    IF seq = <<>> THEN <<>>
    ELSE groups[Head(seq) + 1] \o ConcatGroups(groups, Tail(seq))

Occurrences(s, x) == Cardinality({i \in 1..Len(s) : s[i] = x})

\* C12: work returns Ok only when current_sequence (with the group just
\* chosen) holds every pool index exactly once, and the returned list is the
\* concatenation of those groups in that order, so that every input
\* modification occurs exactly once in it.
C12_OkCoversPool ==
    [][(result # "Ok" /\ result' = "Ok") =>
          LET seq == Append(current_sequence, Last(stack).rem_groups[ret.val + 1])
              pool == 0..(Len(strategy.groups) - 1)
          IN /\ \A g \in pool : Occurrences(seq, g) = 1
             /\ Range(seq) = pool
             /\ returned' = ConcatGroups(strategy.groups, seq)
             /\ \A m \in Mods(world.n) : Occurrences(returned', m) = 1
             /\ Len(returned') = world.n]_vars

\* work has returned the three modifications in the order 2, 0, 1.
C12_Witness ==
    /\ result = "Ok"
    /\ returned = <<2, 0, 1>>

\* The modifications of the world w are independent: the initial configuration
\* and every configuration reached from it satisfy the policies, and the
\* simulator rejects no modification in any of them.
Independent(w) ==
    \A S \in SUBSET Mods(w.n) :
        /\ Verdict(w, S) = "ok"
        /\ \A r \in w.rejects : ~Matches(r, S)

\* C13: when the n modifications are independent, work returns an ordering of
\* length n after n probes, all successful, and never reaches a stuck point,
\* a Reset or a Pop (the stack grows by one frame per chosen group and the
\* run ends in Ok, or in Timeout or Abort when the clock or the stopper say so).
C13_IndependentStraightRun ==
    Independent(world) =>
        /\ pc # "stuck"
        /\ result \in {"none", "Ok", "Timeout", "Abort"}
        /\ lastProbe.valid => lastProbe.mod_ok /\ lastProbe.group_pos = 0
        /\ pc \in {"loop", "probe", "ok"} => Len(stack) = Len(current_sequence) + 1
        /\ result = "Ok" => Len(returned) = world.n

\* The empty pool: nothing to order, and work has panicked.
C13_Witness ==
    /\ Independent(world)
    /\ world.n = 0
    /\ pc = "done"
    /\ result = "panic"

\* C14: in the world where every singleton group fails from the initial state
\* and only m0, m1, m2 together are valid, the stuck point leads to the learned
\* group [m0, m1, m2] replacing the three singletons in the pool and to a
\* search reset over the new pool, and work returns [m0, m1, m2] (unless it is
\* cancelled).
C14_LearnedGroup ==
    /\ [][(world = AtomicTriple /\ pc = "stuck" /\ pc' = "loop") =>
             /\ strategy'.groups = << <<0, 1, 2>> >>
             /\ stack' = <<Frame(<<0>>, 0, 0)>>
             /\ current_sequence' = <<>>]_vars
    /\ [](world = AtomicTriple /\ result = "Ok" => returned = <<0, 1, 2>>)
    /\ (world = AtomicTriple /\ pc = "work") ~> (result \in {"Ok", "Abort"})

\* The three singletons have all failed, the search has been reset over the
\* same three singletons, and they have all failed again.
C14_Witness ==
    /\ world = AtomicTriple
    /\ pc = "stuck"
    /\ group_pos = 2
    /\ ret = [valid |-> TRUE, ok |-> FALSE, val |-> <<>>]
    /\ strategy.groups = << <<0>>, <<1>>, <<2>> >>
    /\ stack = <<Frame(<<2, 1, 0>>, 0, 0)>>
    /\ polled.valid

\* What C15 says of the outcome of an iteration: a set handle with the
\* deadline not passed gives Abort in that iteration, before the stack is
\* peeked or a probe is made; a set handle with the deadline passed gives
\* Timeout; and Abort is returned in no other case.
StopperOutcome ==
    /\ (polled.stop_set /\ ~polled.deadline_passed) =>
          /\ pc = "done"
          /\ result = "Abort"
          /\ call = NoCall
          /\ lastProbe = NoProbe
    /\ (polled.stop_set /\ polled.deadline_passed) => (pc = "done" /\ result = "Timeout")
    /\ result = "Abort" => (polled.stop_set /\ ~polled.deadline_passed)

CapturedNodes(p) ==
    LET group_idx == Last(stack).rem_groups[p + 1]
    IN IF group_idx < Len(strategy.groups)
       THEN ProbeGroup(world, call.net, call.hard_policy,
                       strategy.groups[group_idx + 1]).error_node_indices
       ELSE None

\* C16: when get_next_option returns Err, every candidate at a position >=
\* frame.idx has been probed, and the list carried is the black-hole set of
\* the last failing candidate that captured one, the empty list exactly when
\* no candidate captured one.
C16_ErrCarriesLastCaptured ==
    (pc = "stuck" /\ ret.valid /\ ~ret.ok) =>
        LET later == call.idx..(Len(Last(stack).rem_groups) - 1)
            reporting == {p \in later : CapturedNodes(p).some}
            last == CHOOSE p \in reporting : \A q \in reporting : q <= p
        IN /\ lastProbe.valid
           /\ lastProbe.group_pos = Len(Last(stack).rem_groups) - 1
           /\ ret.val = (IF reporting = {} THEN <<>> ELSE CapturedNodes(last).val)
           /\ (ret.val = <<>>) <=> (reporting = {})

\* The first of three candidates fails with a black hole: get_next_option
\* returns Err with its nodes and the other two are never probed.
C16_Witness ==
    /\ pc = "stuck"
    /\ ret.valid
    /\ ~ret.ok
    /\ call.idx = 0
    /\ Len(Last(stack).rem_groups) = 3
    /\ lastProbe.valid
    /\ lastProbe.group_pos = 0
    /\ lastProbe.nodes.some
    /\ ret.val = lastProbe.nodes.val

\* The group get_next_option chose when it returned Ok(ret.val).
ChosenGroup == strategy.groups[Last(stack).rem_groups[ret.val + 1] + 1]

\* The live objects after Ok(p): the state of the call extended by the
\* modifications of the chosen group, one policy step per modification.
OkAppliedOnCallState ==
    (pc = "ok" /\ ret.valid /\ ret.ok) =>
        /\ net = call.net \o ChosenGroup
        /\ Len(hard_policy) = Len(call.hard_policy) + Len(ChosenGroup)
        /\ SubSeq(hard_policy, 1, Len(call.hard_policy)) = call.hard_policy

\* What the driver does with Ok(p) when the pool is not yet covered: the
\* frame's idx becomes p + 1 and the child frame is pushed.
OkPushesChild ==
    (pc = "ok" /\ pc' = "loop") =>
        LET frame == Last(stack)
            chosen == frame.rem_groups[ret.val + 1]
            rest == SelectSeq(frame.rem_groups, LAMBDA x : x # chosen)
        IN /\ Len(stack') = Len(stack) + 1
           /\ SubSeq(stack', 1, Len(stack) - 1) = SubSeq(stack, 1, Len(stack) - 1)
           /\ stack'[Len(stack)] = [frame EXCEPT !.idx = ret.val + 1]
           /\ Last(stack').idx = 0
           /\ Last(stack').num_undo = lastProbe.applied
           /\ Last(stack').num_undo = Len(ChosenGroup)
           /\ Last(stack').rem_groups = rest
           /\ net' = net
           /\ hard_policy' = hard_policy

\* C17: when get_next_option returns Ok(p), exactly the modifications of the
\* group rem_groups[p] are applied on top of the state of the call, with no
\* residue of earlier failed candidates; the driver sets the frame's idx to
\* p + 1 and pushes a child frame with idx 0, num_undo the number of applied
\* modifications (the group's length) and rem_groups those of the parent
\* without the chosen index.
C17_OkAppliesChosenGroup == []OkAppliedOnCallState /\ [][OkPushesChild]_vars

\* Ok(1) after the candidate at position 0 was rejected at its first
\* modification: the call started on the modifier 1 and ends on the modifier
\* 2 alone.
C17_Witness ==
    /\ pc = "ok"
    /\ ret = [valid |-> TRUE, ok |-> TRUE, val |-> 1]
    /\ call.valid
    /\ call.net = <<1>>
    /\ net = <<2>>


\* C18: at the start of every iteration of the loop of work, the length of
\* current_sequence is the depth of the stack minus one, also after a Reset
\* and after the frame of the oracle's indices has been pushed.
C18_SequenceLengthIsDepthMinusOne ==
    pc = "loop" => Len(current_sequence) = Len(stack) - 1

\* An iteration starts after a Reset with the frame of the oracle's indices on
\* top of the new root frame and an empty current_sequence.
C18_Witness ==
    /\ pc = "loop"
    /\ current_sequence = <<>>
    /\ Len(stack) = 2
    /\ stack[1].idx = 0
    /\ Len(stack[1].rem_groups) = Len(strategy.groups)
    /\ stack[2] = Frame(<<1, 0>>, 0, 0)


\* The number of entries current_sequence held when the frame at position i
\* of the stack (1 is the root) was pushed: one less than its position, and
\* one less again when the frame of the oracle's indices lies above the root.
ChosenBelow(i) ==
    LET shift == Len(stack) - 1 - Len(current_sequence)
    IN IF i - 1 - shift > 0 THEN i - 1 - shift ELSE 0

\* C19, as the code has it: at the start of every iteration of the loop of
\* work, no index of the rem_groups of the top frame occurs in
\* current_sequence, and no index of the rem_groups of a frame below occurs
\* among the entries of current_sequence chosen before that frame was pushed.
C19_RemGroupsDisjointFromEarlierChoices ==
    (pc = "loop" /\ stack # <<>>) =>
        /\ Range(Last(stack).rem_groups) \cap Range(current_sequence) = {}
        /\ \A i \in 1..Len(stack) :
              Range(stack[i].rem_groups)
                  \cap Range(SubSeq(current_sequence, 1, ChosenBelow(i))) = {}

\* C19, as claimed: at the start of every iteration, no index of the
\* rem_groups of any frame of the stack occurs in current_sequence.
C19_EveryFrameDisjoint ==
    pc = "loop" =>
        \A i \in 1..Len(stack) :
            Range(stack[i].rem_groups) \cap Range(current_sequence) = {}

\* Two groups chosen: the root frame still lists both, the frame above it
\* still lists the second, the top frame lists the one group left.
C19_Witness ==
    /\ pc = "loop"
    /\ current_sequence = <<2, 0>>
    /\ Len(stack) = 3
    /\ stack[1].rem_groups = <<2, 0, 1>>
    /\ stack[2].rem_groups = <<0, 1>>
    /\ stack[3].rem_groups = <<1>>

\* The effect of the step that enacts a Reset.
ResetEffect ==
    (pc = "stuck" /\ pc' = "loop") =>
        LET root == stack'[1]
            pool == 0..(Len(strategy.groups) - 1)
        IN /\ Len(stack') \in {1, 2}
           /\ root.idx = 0
           /\ root.num_undo = 0
           /\ Len(root.rem_groups) = Len(strategy.groups)
           /\ Range(root.rem_groups) = pool
           /\ Len(stack') = 2 =>
                 /\ stack'[2].idx = 0
                 /\ stack'[2].num_undo = 0
                 /\ stack'[2].rem_groups # <<>>
           /\ current_sequence' = <<>>
           /\ net' = strategy.net
           /\ hard_policy' = strategy.hard_policy
           /\ strategy'.groups = strategy.groups
           /\ strategy' = strategy

\* C20: a Reset discards every frame of the stack, empties current_sequence,
\* restores the live simulator and policy evaluator to the initial states the
\* strategy holds, and leaves a root frame with idx 0, num_undo 0 and
\* rem_groups a permutation of all indices of the pool (below the frame of the
\* oracle's indices, when one is pushed in the same iteration); the pool of
\* groups is not changed.
C20_ResetRestoresInitial == [][ResetEffect]_vars

\* An iteration starts after a Reset: a fresh root over the three groups, the
\* frame of the oracle's index 2 above it, nothing applied.
C20_Witness ==
    /\ pc = "loop"
    /\ Len(strategy.groups) = 3
    /\ Len(stack) = 2
    /\ stack[1] = Frame(<<1, 2, 0>>, 0, 0)
    /\ stack[2] = Frame(<<2>>, 0, 0)
    /\ current_sequence = <<>>
    /\ net = strategy.net
    /\ hard_policy = strategy.hard_policy


\* C21: after a stuck point whose oracle query is answered sat with a
\* non-empty extracted sequence, the next iteration of work starts with a
\* stack of exactly one frame, the new root, whose rem_groups is the
\* extracted sequence in trace order (idx 0, num_undo 0), with
\* current_sequence empty and the simulator and the policy evaluator in their
\* initial states.
C21_OracleFrameIsRoot ==
    (pc = "loop" /\ oracle.valid /\ oracle.status = "sat" /\ oracle.indices # <<>>) =>
        /\ stack = <<Frame(oracle.indices, 0, 0)>>
        /\ current_sequence = <<>>
        /\ net = strategy.net
        /\ hard_policy = strategy.hard_policy

\* The oracle answered sat with the indices 0, 2: the next iteration starts
\* with the frame of these indices above a shuffled root over the whole pool.
C21_Witness ==
    /\ pc = "loop"
    /\ oracle = [valid |-> TRUE, status |-> "sat", indices |-> <<0, 2>>]
    /\ Len(stack) = 2
    /\ stack[1] = Frame(<<0, 1, 2>>, 0, 0)
    /\ stack[2] = Frame(<<0, 2>>, 0, 0)
    /\ current_sequence = <<>>
    /\ net = strategy.net


\* The step leaves the stuck point by backtracking: the top frame is gone,
\* the frames kept are those that were below it, and current_sequence is cut
\* back, not cleared and rebuilt.
Backtracked ==
    /\ Len(stack') < Len(stack)
    /\ \A i \in 1..Len(stack') : stack'[i] = stack[i]
    /\ Len(current_sequence') <= Len(current_sequence)
    /\ current_sequence' = SubSeq(current_sequence, 1, Len(current_sequence'))

\* C22: after a stuck point whose oracle answer is not sat, the driver pops:
\* the current frame is backtracked and the search is not reset, so the next
\* iteration does not probe the same frame in the same state again.
C22_NotSatPops ==
    [][(pc = "stuck" /\ pc' = "loop" /\ oracle'.valid /\ oracle'.status # "sat") =>
          /\ Backtracked
          /\ ~(stack' = stack /\ current_sequence' = current_sequence /\ net' = net)]_vars

\* The oracle answered unsat at the stuck point of the root frame of a pool
\* of two, and the next iteration starts on a root frame with idx 0 again.
C22_Witness ==
    /\ pc = "loop"
    /\ oracle = [valid |-> TRUE, status |-> "unsat", indices |-> <<>>]
    /\ stack = <<Frame(<<1, 0>>, 0, 0)>>
    /\ current_sequence = <<>>
    /\ net = strategy.net

-----------------------------------------------------------------------------
\* The formula built at a stuck point (strategy_trta.rs:371-440).  A formula
\* text is modelled by its syntax tree.

\* prefix_list: the entries of frame.rem_groups at the positions
\* 0..frame.idx-1 that exist.
PrefixList(frame) == SubSeq(frame.rem_groups, 1, Min2(frame.idx, Len(frame.rem_groups)))

\* prefix_expr over the entries from position k (1-based) of prefix_list on:
\* "x{last}" for the last one, "x{p} & XF(..)" around it for the others.
RECURSIVE PrefixExpr(_, _)
PrefixExpr(prefix_list, k) ==
    IF k = Len(prefix_list) THEN [op |-> "x", i |-> prefix_list[k]]
    ELSE [op |-> "x & XF", i |-> prefix_list[k], then |-> PrefixExpr(prefix_list, k + 1)]

\* prefix: "True" for the empty list.
PrefixFormula(prefix_list) ==
    IF prefix_list = <<>> THEN [op |-> "True"] ELSE PrefixExpr(prefix_list, 1)

\* C25: at every stuck point, the index list from which the prefix formula P
\* is built equals current_sequence, the good prefix applied on the live
\* simulator, in order; P is True exactly when current_sequence is empty.
C25_PrefixIsCurrentSequence ==
    (pc = "stuck" /\ ret.valid /\ ~ret.ok) =>
        /\ PrefixList(Last(stack)) = current_sequence
        /\ (PrefixFormula(PrefixList(Last(stack))) = [op |-> "True"])
              <=> (current_sequence = <<>>)

\* A stuck point below two chosen groups: the frame's idx is 0, so the prefix
\* list is empty and P is True.
C25_Witness ==
    /\ pc = "stuck"
    /\ ret.valid
    /\ ~ret.ok
    /\ current_sequence = <<2, 0>>
    /\ Last(stack) = Frame(<<1>>, 0, 1)
    /\ PrefixList(Last(stack)) = <<>>
    /\ PrefixFormula(PrefixList(Last(stack))) = [op |-> "True"]


-----------------------------------------------------------------------------
\* The formula side of StrategyTRTA::work, run on pools whose modifiers have a
\* kind: a BGP session inserted or removed between two routers, or anything
\* else.

FormulaRouters == 0..2

\* The sessions of a ring of three routers.
Sessions == {<<0, 1>>, <<1, 2>>, <<2, 0>>}

ModifierKinds ==
    {[kind |-> "other"]}
    \cup {[kind |-> k, source |-> st[1], target |-> st[2]] :
             k \in {"Insert", "Remove"}, st \in Sessions}

\* first_modifiers: the first modifier of every group that has one.
FirstModifiers(groups, mods) ==
    LET firsts == [g \in 1..Len(groups) |->
                      IF groups[g] = <<>> THEN None ELSE Some(mods[groups[g][1] + 1])]
        kept == SelectSeq(firsts, LAMBDA f : f.some)
    IN [k \in 1..Len(kept) |-> kept[k].val]

\* session_pairs: one (source, target) per Insert or Remove of a session among
\* first_modifiers, in order; the other modifiers push nothing.
SessionPairs(first_modifiers) ==
    LET sessions == SelectSeq(first_modifiers, LAMBDA m : m.kind \in {"Insert", "Remove"})
    IN [k \in 1..Len(sessions) |-> <<sessions[k].source, sessions[k].target>>]

\* always_formula_parts: G(x_i -> !x_j & ..) for i, j in 0..6, then F x0 & ..
\* & F x5 and a line break.
AlwaysFormulaParts ==
    [op |-> "always",
     G |-> [i \in 1..NumPropositions |->
               [x |-> i - 1,
                negations |-> SelectSeq([j \in 1..NumPropositions |-> j - 1],
                                        LAMBDA j : j # i - 1)]],
     F |-> <<0, 1, 2, 3, 4, 5>>,
     newline |-> TRUE]

\* matched_indices of a node: the positions in session_pairs of the pairs
\* whose source or target is the node.
MatchedIndices(pairs, node) ==
    SelectSeq([i \in 1..Len(pairs) |-> i - 1],
              LAMBDA i : pairs[i + 1][1] = node \/ pairs[i + 1][2] = node)

\* node_formulas of a node: one "!(!x{index} U x{b})" per matched index that
\* is at none of the positions 0..=frame.idx of frame.rem_groups, b being
\* frame.rem_groups[frame.idx].
NodeFormulas(pairs, node, frame) ==
    LET kept == SelectSeq(MatchedIndices(pairs, node),
                          LAMBDA index : ~\E i \in 0..frame.idx :
                                             /\ i < Len(frame.rem_groups)
                                             /\ frame.rem_groups[i + 1] = index)
    IN [k \in 1..Len(kept) |->
           [op |-> "!(!x U x)", m |-> kept[k], b |-> frame.rem_groups[frame.idx + 1]]]

\* formulas: the non-empty node_formulas of the nodes of check_idx, each one
\* a disjunction; combined_formula is their conjunction.
Formulas(pairs, check_idx, frame) ==
    SelectSeq([k \in 1..Len(check_idx) |-> NodeFormulas(pairs, check_idx[k], frame)],
              LAMBDA node_formulas : node_formulas # <<>>)

\* Mutant: the formula is started afresh at every stuck point.
NextAaltaInputFresh(prefix, combined_formula, previous, always) ==
    <<[op |-> "->", prefix |-> prefix, constraints |-> combined_formula]>>
        \o <<[op |-> "True"]>> \o <<always>>

\* aalta_input = "({prefix} -> ({combined_formula})) & {aalta_input} &
\* {always_formula_parts}", as the sequence of its conjuncts.
NextAaltaInput(prefix, combined_formula, previous, always) ==
    <<[op |-> "->", prefix |-> prefix, constraints |-> combined_formula]>>
        \o previous \o <<always>>

\* The pools the formulas are built for.
FormulaPools == UNION {[1..n -> ModifierKinds] : n \in 0..MaxFormulaMods}

\* The stuck points of a pool of n modifiers: the top frame has idx 0, its
\* rem_groups are pool indices not in current_sequence, and the list carried
\* by Err holds at most MaxCheck routers.
DistinctSeqs(S, k) == {q \in SeqsUpTo(S, k) : \A i, j \in 1..Len(q) : i # j => q[i] # q[j]}

StuckPoints(n) ==
    {[frame |-> Frame(rem, 0, num_undo), current_sequence |-> seq, check_idx |-> chk] :
        rem \in DistinctSeqs(0..(n - 1), n) \ {<<>>},
        seq \in DistinctSeqs(0..(n - 1), n),
        num_undo \in 0..1,
        chk \in DistinctSeqs(FormulaRouters, MaxCheck)}

InitFormula ==
    /\ modifiers \in FormulaPools
    /\ world = [n |-> Len(modifiers)]
    /\ strategy = [built |-> TRUE, groups |-> [i \in 1..Len(modifiers) |-> <<i - 1>>]]
    /\ stack = <<>>
    /\ current_sequence = <<>>
    /\ net = <<>>
    /\ hard_policy = <<>>
    /\ pc = "work"
    /\ group_pos = 0
    /\ call = NoCall
    /\ ret = NoRet
    /\ lastProbe = NoProbe
    /\ polled = NoPoll
    /\ oracle = NoOracle
    /\ result = "none"
    /\ returned = <<>>
    /\ session_pairs = <<>>
    /\ always_formula_parts = <<>>
    /\ aalta_input = <<>>
    /\ output_str = <<>>
    /\ indices = <<>>
    /\ num_stuck = 0
    /\ errors = NoErrors
    /\ PermIdle

\* work before its loop: session_pairs, aalta_input = "True", and the frame
\* constraints.
FormulaStart ==
    /\ pc = "work"
    /\ session_pairs' = SessionPairs(FirstModifiers(strategy.groups, modifiers))
    /\ aalta_input' = <<[op |-> "True"]>>
    /\ always_formula_parts' = AlwaysFormulaParts
    /\ pc' = "formula"
    /\ UNCHANGED <<world, strategy, stack, current_sequence, net, hard_policy, group_pos,
                   call, ret, lastProbe, polled, oracle, result, returned>>
    /\ UNCHANGED <<modifiers, output_str, indices, num_stuck, errors>>
    /\ UNCHANGED permVars

\* The Err branch of work up to the formula: get_next_option returned
\* Err(check_idx) on the top frame, and aalta_input is extended.
StuckFormula ==
    /\ pc = "formula"
    /\ num_stuck < MaxStuck
    /\ \E sp \in StuckPoints(Len(modifiers)) :
          /\ Range(sp.frame.rem_groups) \cap Range(sp.current_sequence) = {}
          /\ sp.frame.num_undo = (IF sp.current_sequence = <<>> THEN 0 ELSE 1)
          /\ stack' = <<sp.frame>>
          /\ current_sequence' = sp.current_sequence
          /\ ret' = [valid |-> TRUE, ok |-> FALSE, val |-> sp.check_idx]
          /\ aalta_input' = NextAaltaInput(PrefixFormula(PrefixList(sp.frame)),
                                           Formulas(session_pairs, sp.check_idx, sp.frame),
                                           aalta_input, always_formula_parts)
    /\ num_stuck' = num_stuck + 1
    /\ pc' = "built"
    /\ UNCHANGED <<world, strategy, net, hard_policy, group_pos, call, lastProbe,
                   polled, oracle, result, returned>>
    /\ UNCHANGED <<modifiers, session_pairs, always_formula_parts, output_str, indices,
                   errors>>
    /\ UNCHANGED permVars

\* The end of the Err branch: StackAction::Reset, which leaves the formula
\* alone.
FormulaReset ==
    /\ pc = "built"
    /\ \E root \in NewFrames(Len(strategy.groups), 0) : stack' = <<root>>
    /\ current_sequence' = <<>>
    /\ ret' = NoRet
    /\ pc' = "formula"
    /\ UNCHANGED <<world, strategy, net, hard_policy, group_pos, call, lastProbe,
                   polled, oracle, result, returned>>
    /\ UNCHANGED fmVars
    /\ UNCHANGED permVars

NextFormula ==
    \/ FormulaStart
    \/ StuckFormula
    \/ FormulaReset

SpecFormula == InitFormula /\ [][NextFormula]_vars

\* matched(r) as C23 defines it: the pool indices of the modifications that
\* insert or remove a session whose source or target is r.
SessionsAt(r) ==
    {i \in 0..(Len(modifiers) - 1) :
        /\ modifiers[i + 1].kind \in {"Insert", "Remove"}
        /\ modifiers[i + 1].source = r \/ modifiers[i + 1].target = r}

\* C23: for every black-hole router r reported at a stuck point, the matched
\* set used to build the constraint is exactly the set of pool indices i such
\* that modification i inserts or removes a session whose source or target is
\* r, also when the pool holds modifications of other kinds.
C23_MatchedArePoolIndices ==
    pc = "built" =>
        \A k \in 1..Len(ret.val) :
            Range(MatchedIndices(session_pairs, ret.val[k])) = SessionsAt(ret.val[k])

\* The pool is [something else, insert session 0-1] and router 0 is reported:
\* the matched index is 0, the position of the session in session_pairs, and
\* modification 0 is not a session.
C23_Witness ==
    /\ pc = "built"
    /\ modifiers = <<[kind |-> "other"], [kind |-> "Insert", source |-> 0, target |-> 1]>>
    /\ session_pairs = << <<0, 1>> >>
    /\ ret.valid
    /\ ret.val = <<0>>
    /\ MatchedIndices(session_pairs, 0) = <<0>>
    /\ SessionsAt(0) = {1}


\* The disjuncts C24 gives the router r at the stuck point held by stack,
\* current_sequence and ret: one per index of matched(r) that is neither in
\* the good prefix nor the blocked index b, as pairs <<m, b>>.
BlockedIndex == Last(stack).rem_groups[Last(stack).idx + 1]

ClaimedDisjuncts(r) ==
    {<<m, BlockedIndex>> : m \in {i \in SessionsAt(r) :
                                     i \notin Range(current_sequence) /\ i # BlockedIndex}}

\* The newest implication of aalta_input, each disjunction as the set of its
\* disjuncts <<m, b>>.
BuiltConstraints ==
    [k \in 1..Len(aalta_input[1].constraints) |->
        {<<d.m, d.b>> : d \in Range(aalta_input[1].constraints[k])}]

\* C24: at a stuck point with b = rem_groups[frame.idx], the disjunction of
\* the router r holds a disjunct not(not x_m U x_b) exactly for the indices m
\* of matched(r) that are not in current_sequence and differ from b; the
\* constraint is the conjunction of the non-empty disjunctions, in the order
\* of the reported routers.
C24_DisjunctsSkipGoodPrefix ==
    pc = "built" =>
        LET perRouter == [k \in 1..Len(ret.val) |-> ClaimedDisjuncts(ret.val[k])]
        IN BuiltConstraints = SelectSeq(perRouter, LAMBDA D : D # {})

\* Sessions 0-1 and 1-2, group 0 in the good prefix, group 1 blocked with a
\* black hole at router 1: the constraint holds the disjunct for m = 0.
C24_Witness ==
    /\ pc = "built"
    /\ modifiers = <<[kind |-> "Insert", source |-> 0, target |-> 1],
                     [kind |-> "Insert", source |-> 1, target |-> 2]>>
    /\ current_sequence = <<0>>
    /\ stack = <<Frame(<<1>>, 0, 1)>>
    /\ ret = [valid |-> TRUE, ok |-> FALSE, val |-> <<1>>]
    /\ num_stuck = 1
    /\ BuiltConstraints = <<{<<0, 1>>}>>
    /\ ClaimedDisjuncts(1) = {}


\* The implications among the conjuncts of a formula, newest first.
Implications(formula) == SelectSeq(formula, LAMBDA c : c.op = "->")

\* After k stuck points the formula holds k implications, all of them before
\* the first line break, and the frame constraints.
CumulativeShape ==
    pc \in {"formula", "built"} =>
        /\ Len(Implications(aalta_input)) = num_stuck
        /\ \A i, j \in 1..Len(aalta_input) :
              (aalta_input[i].op = "->" /\ aalta_input[j].op = "always") => i < j
        /\ num_stuck > 0 =>
              \E j \in 1..Len(aalta_input) :
                 /\ aalta_input[j] = always_formula_parts
                 /\ Len(aalta_input[j].G) = NumPropositions
                 /\ Len(aalta_input[j].F) = NumPropositions

\* A stuck point puts its implication in front of the implications the
\* formula held, which stay as they were, in their order; a Reset changes
\* nothing of the formula.
CumulativeStep ==
    /\ (pc = "built" /\ pc' = "formula") => aalta_input' = aalta_input
    /\ num_stuck' = num_stuck + 1 =>
        /\ aalta_input'[1] = [op |-> "->",
                              prefix |-> PrefixFormula(PrefixList(Last(stack'))),
                              constraints |-> Formulas(session_pairs, ret'.val, Last(stack'))]
        /\ Implications(aalta_input') = <<aalta_input'[1]>> \o Implications(aalta_input)
        /\ \A c \in Range(aalta_input) : c \in Range(aalta_input')

\* C26: the formula sent to the oracle is cumulative: at the k-th stuck point
\* of a run it is the conjunction of the k implications generated so far
\* together with the exclusivity and eventuality constraints, and no
\* implication of an earlier stuck point is dropped or changed, also across
\* Resets.
C26_FormulaIsCumulative == []CumulativeShape /\ [][CumulativeStep]_vars

\* Two stuck points with different implications: both are in the formula,
\* the later one first.
C26_Witness ==
    /\ pc = "formula"
    /\ stack = <<Frame(<<1, 0>>, 0, 0)>>
    /\ num_stuck = 2
    /\ Len(Implications(aalta_input)) = 2
    /\ aalta_input[1].op = "->"
    /\ aalta_input[2].op = "->"
    /\ aalta_input[1].constraints # <<>>
    /\ aalta_input[2].constraints # <<>>
    /\ aalta_input[1] # aalta_input[2]

\* C27: for every pool of n modifications, the exclusivity constraints
\* G(x_i -> AND_{j # i} not x_j) and the eventuality constraints F x_i of the
\* formula range over exactly the propositions x_0 .. x_{n-1}, one per
\* modification.
C27_FrameConstraintsOverPool ==
    pc \in {"formula", "built"} =>
        LET pool == 0..(Len(modifiers) - 1)
            G == always_formula_parts.G
            F == always_formula_parts.F
        IN /\ Len(G) = Len(modifiers)
           /\ {G[k].x : k \in 1..Len(G)} = pool
           /\ \A k \in 1..Len(G) : Range(G[k].negations) = pool \ {G[k].x}
           /\ Len(F) = Len(modifiers)
           /\ Range(F) = pool

\* A pool of two modifications: the frame constraints are written over the
\* six propositions x0 .. x5.
C27_Witness ==
    /\ pc = "formula"
    /\ Len(modifiers) = 2
    /\ num_stuck = 0
    /\ Len(always_formula_parts.G) = 6
    /\ always_formula_parts.G[1] = [x |-> 0, negations |-> <<1, 2, 3, 4, 5>>]
    /\ always_formula_parts.F = <<0, 1, 2, 3, 4, 5>>

-----------------------------------------------------------------------------
\* Reading the oracle's output (strategy_trta.rs:464-501).  A text is the
\* sequence of its characters.

Whitespace == {" "}
Digits == {"0", "1", "2"}
DigitValue(c) == CASE c = "0" -> 0 [] c = "1" -> 1 [] c = "2" -> 2

\* str::trim
RECURSIVE TrimStart(_)
TrimStart(str) ==
    IF str # <<>> /\ Head(str) \in Whitespace THEN TrimStart(Tail(str)) ELSE str

RECURSIVE TrimEnd(_)
TrimEnd(str) ==
    IF str # <<>> /\ Last(str) \in Whitespace THEN TrimEnd(Front(str)) ELSE str

Trim(str) == TrimEnd(TrimStart(str))

\* str::starts_with and str::strip_prefix (where it starts with the prefix)
StartsWith(str, pre) == Len(str) >= Len(pre) /\ SubSeq(str, 1, Len(pre)) = pre

StripPrefix(str, pre) == SubSeq(str, Len(pre) + 1, Len(str))

\* str::parse::<usize>: Ok for a non-empty text of digits.
RECURSIVE DecimalValue(_)
DecimalValue(str) ==
    IF str = <<>> THEN 0 ELSE 10 * DecimalValue(Front(str)) + DigitValue(Last(str))

ParseUsize(str) ==
    IF str # <<>> /\ \A i \in 1..Len(str) : str[i] \in Digits
    THEN Some(DecimalValue(str)) ELSE None

\* str::split(sep): the pieces between the separators, empty ones included.
RECURSIVE SplitAt(_, _, _)
SplitAt(str, sep, piece) ==
    IF str = <<>> THEN <<piece>>
    ELSE IF Head(str) = sep THEN <<piece>> \o SplitAt(Tail(str), sep, <<>>)
    ELSE SplitAt(Tail(str), sep, Append(piece, Head(str)))

Split(str, sep) == SplitAt(str, sep, <<>>)

\* str::lines: the pieces between the line breaks; a line break at the end
\* opens no further line, and the empty text has no line.
Lines(str) ==
    LET pieces == Split(str, "\n")
    IN IF str = <<>> THEN <<>>
       ELSE IF Last(str) = "\n" THEN Front(pieces) ELSE pieces

\* Mutant: the negation mark is skipped and the proposition behind it read.
PartIndicesKeepNegated(part) ==
    LET trimmed == Trim(part)
        bare == IF StartsWith(trimmed, <<"!">>) THEN StripPrefix(trimmed, <<"!">>)
                ELSE trimmed
        parsed == ParseUsize(Trim(StripPrefix(bare, <<"x">>)))
    IN IF StartsWith(bare, <<"x">>) /\ parsed.some THEN <<parsed.val>> ELSE <<>>

\* What one part of a line contributes to indices: the number behind "x", or
\* behind "(x", when the rest of the trimmed part parses as a usize.
PartIndices(part) ==
    LET trimmed == Trim(part)
    IN IF StartsWith(trimmed, <<"x">>)
       THEN LET parsed == ParseUsize(Trim(StripPrefix(trimmed, <<"x">>)))
            IN IF parsed.some THEN <<parsed.val>> ELSE <<>>
       ELSE IF StartsWith(trimmed, <<"(", "x">>)
       THEN LET parsed == ParseUsize(Trim(StripPrefix(trimmed, <<"(", "x">>)))
            IN IF parsed.some THEN <<parsed.val>> ELSE <<>>
       ELSE <<>>

RECURSIVE Flatten(_)
Flatten(seqs) == IF seqs = <<>> THEN <<>> ELSE Head(seqs) \o Flatten(Tail(seqs))

LineIndices(line) ==
    LET parts == Split(line, ",")
    IN Flatten([k \in 1..Len(parts) |-> PartIndices(parts[k])])

\* The parsing of the oracle's output: when the second line, trimmed, is
\* "sat", the indices of the lines after it, else none.
ParseOutput(str) ==
    LET lines == Lines(str)
    IN IF Len(lines) > 1 /\ Trim(lines[2]) = <<"s", "a", "t">>
       THEN Flatten([k \in 1..(Len(lines) - 2) |-> LineIndices(lines[k + 2])])
       ELSE <<>>

\* The outputs read: a header line, a status line or none, and up to
\* MaxBodyLines lines of up to MaxParts parts each.
OutputParts ==
    {<<"x", "0">>, <<"x", "1", "2">>, <<"(", "x", "1">>, <<"!", "x", "0">>,
     <<"(", "!", "x", "1">>, <<"x", "1", ")">>, <<" ", "x", "2", " ">>,
     <<"x", " ", "1">>, <<"x">>, <<>>}

StatusLines ==
    {<<"s", "a", "t">>, <<"u", "n", "s", "a", "t">>, <<" ", "s", "a", "t">>,
     <<"s", "a", "t", " ">>}

RECURSIVE Join(_, _)
Join(pieces, sep) ==
    IF pieces = <<>> THEN <<>>
    ELSE IF Len(pieces) = 1 THEN pieces[1]
    ELSE pieces[1] \o <<sep>> \o Join(Tail(pieces), sep)

BodyLines == {Join(parts, ",") : parts \in SeqsUpTo(OutputParts, MaxParts) \ {<<>>}}

OracleOutputs ==
    {<<>>, <<"h">>, <<"h", "\n">>}
    \cup {Join(<<<<"h">>, status>> \o body, "\n") \o ending :
             status \in StatusLines, body \in SeqsUpTo(BodyLines, MaxBodyLines),
             ending \in {<<>>, <<"\n">>}}

InitParse ==
    /\ output_str \in OracleOutputs
    /\ indices = <<>>
    /\ pc = "output"
    /\ modifiers = <<>>
    /\ session_pairs = <<>>
    /\ always_formula_parts = <<>>
    /\ aalta_input = <<>>
    /\ num_stuck = 0
    /\ errors = NoErrors
    /\ world = [n |-> 0]
    /\ strategy = [built |-> FALSE]
    /\ stack = <<>>
    /\ current_sequence = <<>>
    /\ net = <<>>
    /\ hard_policy = <<>>
    /\ group_pos = 0
    /\ call = NoCall
    /\ ret = NoRet
    /\ lastProbe = NoProbe
    /\ polled = NoPoll
    /\ oracle = NoOracle
    /\ result = "none"
    /\ returned = <<>>
    /\ PermIdle

\* The Err branch of work from the oracle's output to indices.
ReadOutput ==
    /\ pc = "output"
    /\ indices' = ParseOutput(output_str)
    /\ pc' = "parsed"
    /\ UNCHANGED <<modifiers, session_pairs, always_formula_parts, aalta_input, output_str,
                   num_stuck, errors>>
    /\ UNCHANGED <<world, strategy, stack, current_sequence, net, hard_policy, group_pos,
                   call, ret, lastProbe, polled, oracle, result, returned>>
    /\ UNCHANGED permVars

NextParse == ReadOutput

SpecParse == InitParse /\ [][NextParse]_vars

\* The tokens of the lines after the status line, in order of appearance:
\* the comma-separated parts without the whitespace around them.
BodyTokens(str) ==
    LET lines == Lines(str)
        perLine == [k \in 1..(Len(lines) - 2) |->
                       LET parts == Split(lines[k + 2], ",")
                       IN [j \in 1..Len(parts) |-> Trim(parts[j])]]
    IN IF Len(lines) > 2 THEN Flatten(perLine) ELSE <<>>

\* A token xN or (xN, N a decimal number; with gaps allowed, whitespace may
\* stand between the x and N.
NumberAfter(tok, mark, gaps) ==
    LET rest == SubSeq(tok, Len(mark) + 1, Len(tok))
        digits == IF gaps THEN SelectSeq(rest, LAMBDA c : c \notin Whitespace) ELSE rest
        solid == \A i, j \in 1..Len(rest) :
                    (i < j /\ rest[i] \in Digits /\ rest[j] \in Digits) =>
                        \A k \in i..j : rest[k] \in Digits
    IN IF /\ Len(tok) > Len(mark)
          /\ SubSeq(tok, 1, Len(mark)) = mark
          /\ digits # <<>>
          /\ \A i \in 1..Len(digits) : digits[i] \in Digits
          /\ solid
       THEN Some(DecimalValue(digits)) ELSE None

TokenNumber(tok, gaps) ==
    IF tok # <<>> /\ tok[1] = "!" THEN None
    ELSE IF NumberAfter(tok, <<"x">>, gaps).some THEN NumberAfter(tok, <<"x">>, gaps)
    ELSE NumberAfter(tok, <<"(", "x">>, gaps)

\* The sequence to extract: the numbers of the tokens xN and (xN in order when
\* the status holds, else nothing.
Extraction(str, statusHolds, gaps) ==
    LET numbers == [k \in 1..Len(BodyTokens(str)) |-> TokenNumber(BodyTokens(str)[k], gaps)]
        found == SelectSeq(numbers, LAMBDA v : v.some)
    IN IF statusHolds THEN [k \in 1..Len(found) |-> found[k].val] ELSE <<>>

StatusIsSat(str, trimmed) ==
    /\ Len(Lines(str)) > 1
    /\ (IF trimmed THEN Trim(Lines(str)[2]) ELSE Lines(str)[2]) = <<"s", "a", "t">>

-----------------------------------------------------------------------------
\* Backtracking at a stuck point: StackAction::Pop and the error capture of
\* find_dependency, applied to the states in which get_next_option returned
\* Err.  work itself selects neither (the call is commented out), so the two
\* are applied here to every stuck point the search reaches before its first
\* Reset.

\* find_dependency: (0..num_undo).for_each(|_| net.undo_action().expect(..))
CaptureUndoNet(a) == UndoNet(a.net, a.num_undo)

\* The 'apply_group loop of find_dependency over the modifiers of the bad
\* group from position k: num_undo is counted before apply_modifier, the step
\* of the hard policy is unwrapped, a failing check records the watch errors
\* and a rejected modifier the synthesized no-convergence error.
RECURSIVE CaptureGroup(_, _, _, _)
CaptureGroup(w, acc, group, k) ==
    IF k > Len(group) THEN acc
    ELSE LET a == ApplyModifier(w, acc.net, group[k])
             counted == [acc EXCEPT !.num_undo = acc.num_undo + 1]
         IN IF a.ok
            THEN LET fw == ForwardingState(a.net)
                     hp == PolicyStep(acc.hard_policy, fw)
                     st == StepResult(w, fw)
                     stepped == [counted EXCEPT
                                    !.net = a.net,
                                    !.hard_policy = hp,
                                    !.num_undo_policy = acc.num_undo_policy + 1]
                 IN IF ~st.ok
                    THEN [stepped EXCEPT !.panic = TRUE]
                    ELSE IF ~PolicyCheck(w, hp)
                    THEN [stepped EXCEPT !.errors = Some("WatchErrors")]
                    ELSE CaptureGroup(w, stepped, group, k + 1)
            ELSE [counted EXCEPT !.errors = Some("NoConvergence")]

CaptureStart(nt, hp) ==
    [num_undo |-> 0, num_undo_policy |-> 0, errors |-> None, panic |-> FALSE,
     net |-> nt, hard_policy |-> hp]

\* find_dependency up to the call of utils::find_dependency: apply the bad
\* group, undo the hard policy num_undo_policy times and the network num_undo
\* times; it panics when the step of the hard policy fails, when an undo
\* fails, and when the group raised no error.
CaptureErrors(w, nt, hp, group) ==
    LET a == CaptureGroup(w, CaptureStart(nt, hp), group, 1)
        u == CaptureUndoNet(a)
    IN IF a.panic
       THEN [panic |-> TRUE, errors |-> a.errors, net |-> a.net,
             hard_policy |-> a.hard_policy]
       ELSE [panic |-> ~u.ok \/ ~a.errors.some, errors |-> a.errors, net |-> u.net,
             hard_policy |-> UndoPolicy(a.hard_policy, a.num_undo_policy)]

\* The top frame is marked as having no option left.
MarkExhausted ==
    /\ pc = "stuck"
    /\ pc' = "exhausted"
    /\ stack' = [stack EXCEPT ![Len(stack)].idx = Len(Last(stack).rem_groups)]
    /\ UNCHANGED <<world, strategy, current_sequence, net, hard_policy, group_pos,
                   call, ret, lastProbe, polled, oracle, result, returned>>
    /\ UNCHANGED permVars
    /\ UNCHANGED fmVars

\* The Pop arm of work on the stack as it stands.
PopStack ==
    /\ pc \in {"stuck", "exhausted"}
    /\ LET p == StackActionPop(stack, current_sequence, net, hard_policy)
       IN IF ~p.ok
          THEN /\ Panic
               /\ UNCHANGED <<stack, current_sequence, net, hard_policy>>
          ELSE /\ pc' = "popped"
               /\ stack' = p.stack
               /\ current_sequence' = p.current_sequence
               /\ net' = p.net
               /\ hard_policy' = p.hard_policy
               /\ UNCHANGED result
    /\ UNCHANGED <<world, strategy, group_pos, call, ret, lastProbe, polled, oracle,
                   returned>>
    /\ UNCHANGED permVars
    /\ UNCHANGED fmVars

\* find_dependency is called with the live objects, the current sequence as
\* the good ordering and the group that failed last as the bad group.
FindDependencyCall ==
    /\ pc \in {"stuck", "exhausted"}
    /\ pc' = "find_dependency"
    /\ call' = [valid |-> TRUE, net |-> net, hard_policy |-> hard_policy,
                idx |-> Last(stack).idx, good_ordering |-> current_sequence,
                bad_group |-> lastProbe.group_idx]
    /\ UNCHANGED <<world, strategy, stack, current_sequence, net, hard_policy,
                   group_pos, ret, lastProbe, polled, oracle, result, returned>>
    /\ UNCHANGED permVars
    /\ UNCHANGED fmVars

\* The error capture of find_dependency.
FindDependencyCapture ==
    /\ pc = "find_dependency"
    /\ LET c == CaptureErrors(world, net, hard_policy,
                              strategy.groups[call.bad_group + 1])
       IN /\ net' = c.net
          /\ hard_policy' = c.hard_policy
          /\ errors' = c.errors
          /\ IF c.panic
             THEN Panic
             ELSE /\ pc' = "captured"
                  /\ UNCHANGED result
    /\ UNCHANGED <<world, strategy, stack, current_sequence, group_pos, call, ret,
                   lastProbe, polled, oracle, returned>>
    /\ UNCHANGED permVars
    /\ UNCHANGED <<modifiers, session_pairs, always_formula_parts, aalta_input,
                   output_str, indices, num_stuck>>

NextBacktrack ==
    \/ StrategyNew
    \/ WorkStart
    \/ LoopHead
    \/ ProbeCandidate
    \/ OnOk
    \/ MarkExhausted
    \/ PopStack
    \/ FindDependencyCall
    \/ FindDependencyCapture

SpecBacktrack == Init /\ [][NextBacktrack]_vars

\* The length of the maximal run of frames without options at the top of stk.
RECURSIVE ExhaustedRun(_)
ExhaustedRun(stk) ==
    IF stk = <<>> THEN 0
    ELSE IF Last(stk).idx < Len(Last(stk).rem_groups) THEN 0
    ELSE 1 + ExhaustedRun(Front(stk))

\* The sum of num_undo over the k frames at the top of stk.
RECURSIVE UndoSum(_, _)
UndoSum(stk, k) ==
    IF k = 0 THEN 0 ELSE Last(stk).num_undo + UndoSum(Front(stk), k - 1)

\* A step of the Pop arm, whether it completes or panics.
PopStep == pc \in {"stuck", "exhausted"} /\ pc' \in {"popped", "done"}

\* What a Pop removes and undoes.
PopRemovesRun ==
    LET k == ExhaustedRun(stack)
        u == UndoSum(stack, k)
    IN /\ pc' = "popped"
       /\ stack' = SubSeq(stack, 1, Len(stack) - k)
       /\ current_sequence' =
              SubSeq(current_sequence, 1, Max2(0, Len(current_sequence) - k))
       /\ u <= Len(net)
       /\ net' = SubSeq(net, 1, Len(net) - u)
       /\ u <= Len(hard_policy)
       /\ hard_policy' = SubSeq(hard_policy, 1, Len(hard_policy) - u)
       /\ (stack' = <<>> \/ Last(stack').idx < Len(Last(stack').rem_groups))

\* The live state is current_sequence applied to the initial configuration.
LiveFollowsSequence ==
    /\ net = FinalizeOrdering(strategy.groups, current_sequence)
    /\ hard_policy = ReplayPolicy(world, net)

PopFromFollowedSequence ==
    [][(PopStep /\ LiveFollowsSequence) => (PopRemovesRun /\ LiveFollowsSequence')]_vars

RECURSIVE FailureKind(_, _, _, _)
FailureKind(w, nt, group, k) ==
    IF k > Len(group) THEN "none"
    ELSE LET a == ApplyModifier(w, nt, group[k])
         IN IF ~a.ok THEN "rejection"
            ELSE IF Verdict(w, ForwardingState(a.net)) # "ok" THEN "violation"
            ELSE FailureKind(w, a.net, group, k + 1)

\* A step of the error capture, whether it completes or panics, for a group
\* that fails on the state of the call.
CaptureStep ==
    /\ pc = "find_dependency"
    /\ pc' \in {"captured", "done"}
    /\ FailureKind(world, net, strategy.groups[call.bad_group + 1], 1) # "none"

\* C30: the error capture of find_dependency leaves the network and the hard
\* policy as they were before the call for every bad group, whether it fails
\* by a policy violation or by a rejection of the simulator, and records the
\* synthesized no-convergence error in the case of a rejection.
C30_CaptureRestoresState ==
    [][CaptureStep =>
          /\ pc' = "captured"
          /\ net' = net
          /\ hard_policy' = hard_policy
          /\ errors'.some
          /\ (FailureKind(world, net, strategy.groups[call.bad_group + 1], 1)
                  = "rejection" => errors'.val = "NoConvergence")]_vars

\* The error capture has returned for a group whose modifier the simulator
\* rejects, with the synthesized error recorded.
C30_Witness ==
    /\ pc = "captured"
    /\ errors = Some("NoConvergence")
    /\ call.net # <<>>

-----------------------------------------------------------------------------
\* The preconditions of get_next_option.

\* An iteration of work ends in a panic at the head of the loop: the assertion
\* at the entry of get_next_option failed.
AssertionFails == pc = "loop" /\ pc' = "done" /\ result' = "panic"

\* C31: the assertion at the entry of get_next_option never fails: whenever an
\* iteration of work reaches get_next_option, the top frame has idx below the
\* length of its rem_groups, for every pool size and after frames built from
\* the oracle's output.
C31_AssertionNeverFails == [][~AssertionFails]_vars

\* get_next_option is entered on a frame built from the oracle's output.
C31_Witness ==
    /\ pc = "probe"
    /\ Len(stack) = 2
    /\ stack[2].num_undo = 0
    /\ stack[2].idx < Len(stack[2].rem_groups)

\* C32: every index stored in the rem_groups of a frame on the stack, the
\* frames built from the oracle's output included, is an index into the group
\* pool, so get_next_option never indexes the pool out of bounds.
C32_RemGroupsInPool ==
    strategy.built =>
        \A i \in 1..Len(stack) : \A k \in 1..Len(stack[i].rem_groups) :
            stack[i].rem_groups[k] < Len(strategy.groups)

\* get_next_option has found a group that applies cleanly among the
\* candidates of a frame built from the oracle's output.
C32_Witness ==
    /\ pc = "ok"
    /\ Len(stack) = 2
    /\ stack[2].num_undo = 0
    /\ ret.ok

-----------------------------------------------------------------------------
\* The TreePermutator under interleaved next() and fail_pos(pos) calls.

\* C33: under any interleaving of next() and fail_pos(pos) calls (any pos,
\* calls before the first next() included) the emitted permutations strictly
\* increase in the lexicographic order of their index tuples; hence none is
\* emitted twice, and next() returns None after at most n! emissions.
C33_EmissionsIncrease ==
    /\ \A i, j \in 1..Len(emittedIdx) : i < j => LexLess(emittedIdx[i], emittedIdx[j])
    /\ \A i, j \in 1..Len(emitted) : i < j => emitted[i] # emitted[j]
    /\ Len(emittedIdx) <= Factorial(len)
    /\ (Len(emittedIdx) = Factorial(len) /\ started) => ChangePos(remaining) = 0
    /\ ~treePanic

\* fail_pos(0) was called before the first next(); the iteration over three
\* elements then ran to None and emitted five permutations.
C33_Witness ==
    /\ exhausted
    /\ len = 3
    /\ <<0, 0>> \in pruned
    /\ Len(emittedIdx) = 5

\* The stack of choices rem belongs to a position holding the index x after
\* the prefix of indices: strictly descending, every entry greater than x and
\* none of them in the prefix.
ChoicesWellFormed(rem, x, prefix) ==
    /\ \A k \in 1..(Len(rem) - 1) : rem[k] > rem[k + 1]
    /\ \A k \in 1..Len(rem) : rem[k] > x /\ rem[k] \notin prefix

\* C34: after new and after every next() and fail_pos(pos) call, state is a
\* permutation of 0..n-1 and, for every position i, remaining[i] is strictly
\* descending, holds only indices greater than state[i] and none that occurs
\* in state[0..=i]; so the pop, remove and unwrap steps of next() never fail.
C34_StateAndRemainingWellFormed ==
    /\ Len(state) = len
    /\ Len(remaining) = len
    /\ state \in Perms(len)
    /\ \A i \in 1..len :
          ChoicesWellFormed(remaining[i], state[i], {state[j] : j \in 1..i})
    /\ ~treePanic

\* next() has advanced at a position above the last one after a fail_pos call,
\* and a position still holds a choice.
C34_Witness ==
    /\ len = 3
    /\ nfail > 0
    /\ Len(emittedIdx) >= 2
    /\ state[1] # 0
    /\ \E i \in 1..len : Len(remaining[i]) >= 1


=============================================================================
